---- MODULE Spec2Model ----
(***************************************************************************)
(* Proposal resolution and selection pipeline of the governance widget:    *)
(*   - fetchWithRetry            (lib/services/fetch-service.js)            *)
(*   - selectTopProposals        (lib/utils/url-parser.js and the copy      *)
(*                                inside the api-initializer)               *)
(*   - fetchProposalData / fetchProposalDataByType and the proposal cache   *)
(*   - setupTopicWidgetWithProposals (one rendering pass)                   *)
(*   - getStatePriority, formatStatusForDisplay and the status detection  *)
(*     of renderStatusWidget                                               *)
(*   - mergeProposalData         (aip-service)                             *)
(*   - extractProposalInfo, extractSnapshotProposalInfo,                   *)
(*     extractAIPProposalInfo    (lib/utils/url-parser.js)                 *)
(*   - the vote conversion of fetchAIPFromSubgraph and getStateMapping     *)
(*   - transformSnapshotData     (lib/services/snapshot-service.js)        *)
(*   - ensureEthersLoaded and the unhandledrejection listener              *)
(*   - calculateTimeRemaining and formatTimeDisplay                        *)
(*   - showNetworkErrorWidget    (lib/dom/renderer.js)                     *)
(*   - renderStatusWidget and setupAutoRefresh of the Tally initializer    *)
(***************************************************************************)
EXTENDS Integers, Sequences, FiniteSets, TLC

(***************************************************************************)
(* Bounds of the model                                                     *)
(***************************************************************************)
MaxRetriesBound == 4
MaxCands == 4

(***************************************************************************)
(* Generic helpers                                                         *)
(***************************************************************************)
RECURSIVE Pow2(_)
Pow2(n) == IF n = 0 THEN 1 ELSE 2 * Pow2(n - 1)

Min(a, b) == IF a <= b THEN a ELSE b

Range(s) == {s[i] : i \in 1..Len(s)}

RECURSIVE SeqOfLen(_, _)
SeqOfLen(S, n) == IF n = 0 THEN {<<>>}
                  ELSE {Append(s, x) : s \in SeqOfLen(S, n - 1), x \in S}

RECURSIVE SeqsUpTo(_, _)
SeqsUpTo(S, n) == IF n = 0 THEN {<<>>}
                  ELSE SeqOfLen(S, n) \cup SeqsUpTo(S, n - 1)

(***************************************************************************)
(* fetchWithRetry                                                          *)
(***************************************************************************)
\* Errors a fetch() attempt can reject with: a name and a message.
FetchErrors ==
  { [name |-> "AbortError",   message |-> "The user aborted a request."],
    [name |-> "TypeError",    message |-> "Failed to fetch"],
    [name |-> "TypeError",    message |-> "Invalid URL"],
    [name |-> "NetworkError", message |-> "connection reset"],
    [name |-> "Error",        message |-> "ERR_QUIC_PROTOCOL_ERROR"],
    [name |-> "Error",        message |-> "network changed"],
    [name |-> "Error",        message |-> "Unexpected token"],
    [name |-> "SyntaxError",  message |-> "Unexpected token"] }
NoError == [name |-> "none", message |-> "none"]

\* error.message?.includes(sub) for the substrings the code looks for
MessageIncludes(msg, sub) ==
  CASE msg = "Failed to fetch"         -> sub = "Failed to fetch"
    [] msg = "ERR_QUIC_PROTOCOL_ERROR" -> sub \in {"QUIC", "ERR_QUIC"}
    [] msg = "network changed"         -> sub = "network"
    [] OTHER                           -> FALSE

isNetworkErrorAll(error) == TRUE

isNetworkError(error) ==
  \/ error.name = "TypeError"
  \/ error.name = "NetworkError"
  \/ MessageIncludes(error.message, "Failed to fetch")
  \/ MessageIncludes(error.message, "QUIC")
  \/ MessageIncludes(error.message, "ERR_QUIC")
  \/ MessageIncludes(error.message, "NetworkError")
  \/ MessageIncludes(error.message, "network")

isAbortError(error) == error.name = "AbortError"

\* an error the loop retries: the timeout abort or a classified network error
isTransient(error) == isAbortError(error) \/ isNetworkError(error)

AttemptTimeoutMs == 10000

BackoffDelayShifted(baseDelay, attempt) == baseDelay * Pow2(attempt + 1)

BackoffDelay(baseDelay, attempt) == baseDelay * Pow2(attempt)

BaseDelays == {1000, 250}

VARIABLES fw

FwIdle == [pc |-> "idle", maxRetries |-> 0, baseDelay |-> 0, attempt |-> 0,
           attempts |-> 0, waits |-> <<>>, errs |-> <<>>,
           lastError |-> NoError, elapsed |-> 0, thrownName |-> "none",
           thrownCause |-> NoError]

\* fetchWithRetry(url, options, maxRetries, baseDelay): entry up to the first
\* await.  With maxRetries = 0 the loop body never runs, lastError stays
\* undefined and the "Unknown error" is thrown.
FetchWithRetryCall(maxRetries, baseDelay) ==
  /\ fw.pc = "idle"
  /\ fw' = IF maxRetries > 0
           THEN [FwIdle EXCEPT !.pc = "attempting", !.maxRetries = maxRetries,
                               !.baseDelay = baseDelay, !.attempts = 1]
           ELSE [FwIdle EXCEPT !.pc = "thrown", !.maxRetries = maxRetries,
                               !.baseDelay = baseDelay,
                               !.thrownName = "Error"]

\* the awaited fetch() resolves with a response: clearTimeout, return.
AttemptResolves ==
  /\ fw.pc = "attempting"
  /\ fw' = [fw EXCEPT !.pc = "returned"]

\* the awaited fetch() rejects with error: the catch block, then either the
\* backoff wait (continue) or break and the throw after the loop.
AttemptRejects(error) ==
  /\ fw.pc = "attempting"
  /\ LET retry == /\ (isAbortError(error) \/ isNetworkError(error))
                  /\ fw.attempt < fw.maxRetries - 1
         spent == IF isAbortError(error) THEN AttemptTimeoutMs ELSE 0
     IN fw' = IF retry
              THEN [fw EXCEPT !.pc = "waiting",
                              !.errs = Append(@, error),
                              !.lastError = error,
                              !.elapsed = @ + spent,
                              !.waits = Append(@, BackoffDelay(fw.baseDelay, fw.attempt))]
              ELSE [fw EXCEPT !.pc = "thrown",
                              !.errs = Append(@, error),
                              !.lastError = error,
                              !.elapsed = @ + spent,
                              !.thrownName = error.name,
                              !.thrownCause = error]

\* the setTimeout(resolve, delay) of the backoff fires: next loop iteration.
BackoffElapses ==
  /\ fw.pc = "waiting"
  /\ fw' = [fw EXCEPT !.pc = "attempting",
                      !.attempt = @ + 1,
                      !.attempts = @ + 1,
                      !.elapsed = @ + fw.waits[Len(fw.waits)]]

(***************************************************************************)
(* Priority selector                                                       *)
(***************************************************************************)
\* toLowerCase().trim() on the status spellings the model uses
NormalizeStatus(status) ==
  CASE status = "Active"   -> "active"
    [] status = " queued " -> "queued"
    [] status = "EXECUTED" -> "executed"
    [] OTHER               -> status

getStatePriority(status) ==
  LET normalizedStatus == NormalizeStatus(status) IN
  IF normalizedStatus \in {"active", "open", "voting"} THEN 1
  ELSE IF normalizedStatus = "created" THEN 2
  ELSE IF normalizedStatus \in {"pending", "pendingexecution",
                                "pending execution", "queued"} THEN 3
  ELSE IF normalizedStatus \in {"executed", "crosschainexecuted",
                                "completed", "passed"} THEN 4
  ELSE IF normalizedStatus \in {"closed", "ended", "expired"} THEN 5
  ELSE IF normalizedStatus \in {"failed", "defeated", "defeat", "rejected",
                                "quorum not reached", "cancelled"} THEN 6
  ELSE 7

\* proposal.stage || proposal.type || "arfc", then the bucket key
TypeKey(p) ==
  LET proposalType == IF p.stage # "" THEN p.stage
                      ELSE IF p.type # "" THEN p.type ELSE "arfc"
  IN IF proposalType = "temp-check" THEN "tempcheck"
     ELSE IF proposalType = "aip" THEN "aip" ELSE "arfc"

\* the comparator handed to Array.prototype.sort
CompareReversed(a, b) ==
  IF getStatePriority(a.status) # getStatePriority(b.status)
  THEN getStatePriority(b.status) - getStatePriority(a.status)
  ELSE a.originalOrder - b.originalOrder

Compare(a, b) ==
  IF getStatePriority(a.status) # getStatePriority(b.status)
  THEN getStatePriority(a.status) - getStatePriority(b.status)
  ELSE a.originalOrder - b.originalOrder

\* Array.prototype.sort is stable: insert each element after the last
\* element that does not compare greater than it.
RECURSIVE InsertSorted(_, _)
InsertSorted(sorted, x) ==
  IF sorted = <<>> THEN <<x>>
  ELSE LET n == Len(sorted) IN
       IF Compare(sorted[n], x) <= 0 THEN Append(sorted, x)
       ELSE Append(InsertSorted(SubSeq(sorted, 1, n - 1), x), sorted[n])

RECURSIVE SortProposals(_)
SortProposals(list) ==
  IF list = <<>> THEN <<>>
  ELSE InsertSorted(SortProposals(SubSeq(list, 1, Len(list) - 1)), list[Len(list)])

ZeroCounts == [k \in {"tempcheck", "arfc", "aip"} |-> 0]

\* the for-loop over the sorted list: selected and typeCounts after the
\* first i elements.
RECURSIVE SelectLoop(_, _, _)
SelectLoop(sorted, i, maxPerType) ==
  IF i = 0 THEN [selected |-> <<>>, typeCounts |-> ZeroCounts]
  ELSE LET prev == SelectLoop(sorted, i - 1, maxPerType)
           proposal == sorted[i]
           typeKey == TypeKey(proposal)
           canAdd == \/ prev.typeCounts[typeKey] < maxPerType
                     \/ /\ Len(prev.selected) < 3
                        /\ \A k \in DOMAIN prev.typeCounts : prev.typeCounts[k] = 0
       IN IF Len(prev.selected) >= 3 THEN prev
          ELSE IF canAdd
               THEN [selected |-> Append(prev.selected, proposal),
                     typeCounts |-> [prev.typeCounts EXCEPT ![typeKey] = @ + 1]]
               ELSE prev

\* selectTopProposals exported by lib/utils/url-parser.js
MaxPerTypeAlways3(sorted) == 3

MaxPerType(sorted) ==
  LET uniqueTypes == {TypeKey(sorted[i]) : i \in 1..Len(sorted)}
      isSingleType == Cardinality(uniqueTypes) = 1
  IN IF isSingleType THEN 3 ELSE 2

selectTopProposals(proposalsList) ==
  LET sorted == SortProposals(proposalsList)
  IN SelectLoop(sorted, Len(sorted), MaxPerType(sorted)).selected

\* selectTopProposals defined inside setupTopicWidgetWithProposals (the one
\* renderSelectedProposals calls): maxPerType is the constant 2.
InlineMaxPerType == 2

selectTopProposalsInline(proposalsList) ==
  LET sorted == SortProposals(proposalsList)
  IN SelectLoop(sorted, Len(sorted), InlineMaxPerType).selected

SelStatuses == {"Active", "executed", "defeated"}
SelStages == {"temp-check", "arfc", "aip"}

VARIABLES proposalsList, selected, selectedBy

\* a candidate list as a caller builds it: originalOrder is the position
CandidateLists ==
  {[i \in 1..Len(s) |-> [url |-> i, status |-> s[i][1], stage |-> s[i][2],
                         type |-> IF s[i][2] = "aip" THEN "aip" ELSE "snapshot",
                         originalOrder |-> i - 1]]
     : s \in SeqsUpTo(SelStatuses \X SelStages, MaxCands)}

\* a call of the exported selector; sort() reorders the argument in place
CallSelectTopProposals ==
  /\ selectedBy = "none"
  /\ selected' = selectTopProposals(proposalsList)
  /\ proposalsList' = SortProposals(proposalsList)
  /\ selectedBy' = "url-parser"

\* a call of the initializer's selector
CallSelectTopProposalsInline ==
  /\ selectedBy = "none"
  /\ selected' = selectTopProposalsInline(proposalsList)
  /\ proposalsList' = SortProposals(proposalsList)
  /\ selectedBy' = "initializer"

(***************************************************************************)
(* Proposal cache and the resolvers                                        *)
(***************************************************************************)
MaxTicks == 4
CacheTtlMs == 300000

\* S0: a snapshot.org link without a proposal id (not extractable)
\* S1: a snapshot.org proposal, S2: a testnet.snapshot.box proposal
\* A1: an Aave governance proposal, X1: a link of no known platform
\* T1: a tally.xyz proposal (resolved by the Tally initializer)
SnapshotUrls == {"S0", "S1", "S2"}
AipUrls == {"A1"}
TallyUrls == {"T1"}
Urls == SnapshotUrls \cup AipUrls \cup {"X1"}
DirectUrls == {"S0", "S2", "A1", "X1"}
AllUrls == Urls \cup TallyUrls
\* callers: 0 awaits the resolver directly (the refresh timer, the scroll
\* handlers); 1..MaxPasses are the rendering passes
Directs == {0}

\* the url.includes(...) tests of fetchProposalData
UrlType(url) ==
  IF url \in SnapshotUrls THEN "snapshot"
  ELSE IF url \in AipUrls THEN "aip"
  ELSE "none"

\* extractSnapshotProposalInfo / extractAIPProposalInfo return an identifier
Extractable(url) == url \in {"S1", "S2", "A1"}

isTestnet(url) == url = "S2"

\* formatOrder.length in fetchSnapshotProposal
FormatCount(url) == IF isTestnet(url) THEN 4 ELSE 3

\* daysLeft / hoursLeft: null, or a number
NoTime == [defined |-> FALSE, value |-> 0]

Time(v) == [defined |-> TRUE, value |-> v]

Null == [url |-> "null", cachedAt |-> 0, status |-> "", stage |-> "",
         title |-> "", chain |-> "", daysLeft |-> NoTime, hoursLeft |-> NoTime]

\* now: Date.now();  world: what the platforms hold for each URL
\* proposalCache, tallyCache: the proposalCache Map of each initializer
\* calls: the fetches in flight;  returned: what each direct caller got
\* thread: the proposal links of the topic, in order of first appearance
\* passes: the closure of each pass (its links, the promise of each fetch,
\*         and what its renderSelectedProposals call was given)
\* fetchingUrls, renderingUrls: the two tracking Sets
\* widgets: the URLs of the .tally-status-widget-container elements
\* winSnapshot, winAip: window._snapshotProposals, window._aipProposals
VARIABLES now, world, proposalCache, tallyCache, calls, returned,
          thread, passes, fetchingUrls, renderingUrls, widgets,
          winSnapshot, winAip

\* proposal.end / the end timestamp of the vote, in seconds: the off-chain
\* votes end in a day, the Aave vote in an hour, the Tally vote has ended
EndTime(url) ==
  IF url \in SnapshotUrls THEN 24 * 60 * 60
  ELSE IF url \in AipUrls THEN 60 * 60
  ELSE 1

\* Math.floor for a quotient that is not negative, Math.ceil for a negative one
TowardZero(a, b) == IF a >= 0 THEN a \div b ELSE -((-a) \div b)

\* calculateTimeRemaining(endTimestampSeconds), with t for Date.now()
calculateTimeRemaining(endTimestampSeconds, t) ==
  IF endTimestampSeconds <= 0
  THEN [daysLeft |-> NoTime, hoursLeft |-> NoTime]
  ELSE LET diffTime == endTimestampSeconds * 1000 - t
           diffDays == TowardZero(diffTime, 1000 * 60 * 60 * 24)
       IN [daysLeft |-> Time(diffDays),
           hoursLeft |-> IF diffDays = 0 /\ diffTime > 0
                         THEN Time(diffTime \div (1000 * 60 * 60))
                         ELSE NoTime]

\* the time-remaining block of transformSnapshotData: now = Date.now() / 1000
\* and diffTime = endTime - now are kept in milliseconds here
SnapshotTimeRemaining(endTime, t) ==
  IF endTime > 0
  THEN LET diffTime == endTime * 1000 - t
       IN IF diffTime >= 0
          THEN LET daysLeft == diffTime \div (24 * 60 * 60 * 1000)
               IN [daysLeft |-> Time(daysLeft),
                   hoursLeft |-> IF daysLeft = 0 /\ diffTime > 0
                                 THEN Time(diffTime \div (60 * 60 * 1000))
                                 ELSE NoTime]
          ELSE [daysLeft |-> Time(-((-diffTime) \div (24 * 60 * 60 * 1000))),
                hoursLeft |-> NoTime]
  ELSE [daysLeft |-> NoTime, hoursLeft |-> NoTime]

TimeRemaining(url, t, chain) ==
  IF chain = "snapshot" THEN SnapshotTimeRemaining(EndTime(url), t)
  ELSE calculateTimeRemaining(EndTime(url), t)

RecUnstamped(url, t, chain) ==
  [url |-> url, cachedAt |-> 0, status |-> world[url].status,
   stage |-> world[url].stage, title |-> "Proposal", chain |-> chain,
   daysLeft |-> TimeRemaining(url, t, chain).daysLeft,
   hoursLeft |-> TimeRemaining(url, t, chain).hoursLeft]

\* the record a successful fetch of url builds at time t
Rec(url, t, chain) ==
  [url |-> url, cachedAt |-> t, status |-> world[url].status,
   stage |-> world[url].stage, title |-> "Proposal", chain |-> chain,
   daysLeft |-> TimeRemaining(url, t, chain).daysLeft,
   hoursLeft |-> TimeRemaining(url, t, chain).hoursLeft]

\* the placeholder the Tally resolver returns when no source answered
FallbackRec(url) ==
  [url |-> url, cachedAt |-> 0, status |-> "unknown", stage |-> "",
   title |-> "Tally Proposal", chain |-> "fallback",
   daysLeft |-> NoTime, hoursLeft |-> NoTime]

IsFreshInclusive(entry, t) == t - entry.cachedAt <= CacheTtlMs

\* cacheAge < 5 * 60 * 1000
IsFresh(entry, t) == t - entry.cachedAt < CacheTtlMs

CacheConsultedAlways(forceRefresh, cache, key) == cache[key] # Null

\* !forceRefresh && proposalCache.has(cacheKey)
CacheConsulted(forceRefresh, cache, key) ==
  ~forceRefresh /\ cache[key] # Null

ResolveHeadEvicts(url, forceRefresh, cache) ==
  IF CacheConsulted(forceRefresh, cache, url) /\ IsFresh(cache[url], now)
  THEN [kind |-> "cached", rec |-> cache[url], cache |-> cache]
  ELSE LET cache1 == [cache EXCEPT ![url] = Null]
       IN IF Extractable(url)
          THEN [kind |-> "fetch", rec |-> Null, cache |-> cache1]
          ELSE [kind |-> "null", rec |-> Null, cache |-> cache1]

\* The synchronous head of fetchProposalDataByType(url, type, forceRefresh):
\* the cache check and the identifier extraction, up to the first request.
\*   kind = "cached": the cached record is returned
\*   kind = "null"  : null is returned without a request
\*   kind = "fetch" : the first request of the platform fetcher is issued
ResolveHead(url, forceRefresh, cache) ==
  IF CacheConsulted(forceRefresh, cache, url) /\ IsFresh(cache[url], now)
  THEN [kind |-> "cached", rec |-> cache[url], cache |-> cache]
  ELSE LET cache1 == IF CacheConsulted(forceRefresh, cache, url)
                     THEN [cache EXCEPT ![url] = Null] ELSE cache
       IN IF Extractable(url)
          THEN [kind |-> "fetch", rec |-> Null, cache |-> cache1]
          ELSE [kind |-> "null", rec |-> Null, cache |-> cache1]

\* fetchProposalData(proposalId, url, ...): the type test comes first
ResolveEntry(url, forceRefresh, cache) ==
  IF UrlType(url) = "none"
  THEN [kind |-> "null", rec |-> Null, cache |-> cache]
  ELSE ResolveHead(url, forceRefresh, cache)

Idle == [pc |-> "idle", url |-> "none", force |-> FALSE, via |-> "none",
         rec |-> Null, ageAtCall |-> -1, lastKind |-> "none"]

NewCall(caller, url, forceRefresh) ==
  [caller |-> caller, url |-> url, force |-> forceRefresh,
   impl |-> IF url \in TallyUrls THEN "tally" ELSE UrlType(url), step |-> 1]

AgeOf(cache, url) == IF cache[url] = Null THEN -1 ELSE now - cache[url].cachedAt

\* a caller awaits fetchProposalData(_, url, _, _, forceRefresh) of the
\* governance initializer
ResolveCall(d, url, forceRefresh) ==
  /\ returned[d].pc # "waiting"
  /\ LET head == ResolveEntry(url, forceRefresh, proposalCache)
         base == [Idle EXCEPT !.url = url, !.force = forceRefresh,
                              !.ageAtCall = AgeOf(proposalCache, url)]
     IN /\ proposalCache' = head.cache
        /\ IF head.kind = "fetch"
           THEN /\ calls' = calls \cup {NewCall(d, url, forceRefresh)}
                /\ returned' = [returned EXCEPT ![d] =
                                  [base EXCEPT !.pc = "waiting"]]
           ELSE /\ calls' = calls
                /\ returned' = [returned EXCEPT ![d] =
                                  [base EXCEPT !.pc = "done",
                                               !.rec = head.rec,
                                               !.via = IF head.kind = "cached"
                                                       THEN "cache" ELSE "none"]]
  /\ UNCHANGED <<now, world, tallyCache, thread, passes, fetchingUrls,
                 renderingUrls, widgets, winSnapshot, winAip>>

\* What one response does to fetchSnapshotProposal, by the request it answers:
\*   "success": transform, stamp, cache and return the proposal
\*   "next"   : try the next ID format
\*   "null"   : return null
SnapshotKinds == {"proposal", "empty", "errors", "httpError", "throws"}

SnapshotOutcomeLenient(url, step, kind) ==
  IF kind \in {"proposal", "errors"} THEN "success"
  ELSE IF kind = "throws" THEN "null"
  ELSE IF step < FormatCount(url) THEN "next" ELSE "null"

SnapshotOutcome(url, step, kind) ==
  IF kind = "proposal" THEN "success"
  ELSE IF kind = "throws" THEN "null"
  ELSE IF step = 1
       THEN IF kind = "empty" /\ step < FormatCount(url) THEN "next" ELSE "null"
       ELSE IF step < FormatCount(url) THEN "next" ELSE "null"

\* fetchAIPProposal: the subgraph first, then the chain
AipKinds == {"found", "nothing"}

AipOutcomeBothSources(step, kind) ==
  IF step = 1 THEN "next"
  ELSE IF kind = "found" THEN "success" ELSE "null"

AipOutcome(step, kind) ==
  IF kind = "found" THEN "success"
  ELSE IF step = 1 THEN "next" ELSE "null"

(***************************************************************************)
(* One rendering pass: setupTopicWidgetWithProposals                       *)
(***************************************************************************)
MaxPasses == 2
PassIds == 1..MaxPasses
PassUrls == {"S1", "A1"}

Pending == [Null EXCEPT !.url = "pending"]
Unused == [Null EXCEPT !.url = "unused"]

NoSel == [ran |-> FALSE, cands |-> <<>>, selected |-> <<>>, pending |-> {}]
\* errorWidget: the pass inserted #governance-error-widget;  caught: the
\* .catch of its Snapshot chain ran
PassIdle == [links |-> <<>>, res |-> [u \in PassUrls |-> Unused], sel |-> NoSel,
             errorWidget |-> FALSE, caught |-> FALSE]

SnapshotLinks(links) == SelectSeq(links, LAMBDA u : UrlType(u) = "snapshot")
AipLinks(links) == SelectSeq(links, LAMBDA u : UrlType(u) = "aip")

\* snapshot first, then aip
orderedProposals(links) == SnapshotLinks(links) \o AipLinks(links)

\* Array.prototype.findIndex
findIndex(s, u) ==
  IF \E i \in 1..Len(s) : s[i] = u
  THEN (CHOOSE i \in 1..Len(s) : s[i] = u /\ \A j \in 1..(i - 1) : s[j] # u) - 1
  ELSE -1

PendingOf(pass) == {u \in PassUrls : pass.res[u] = Pending}

Page(p) == [renderingUrls |-> renderingUrls, fetchingUrls |-> fetchingUrls,
            widgets |-> widgets, winSnapshot |-> winSnapshot,
            winAip |-> winAip, pass |-> passes[p]]

\* renderMultiStageWidget(stages, widgetId, proposalOrder, renderingUrls,
\* fetchingUrls) for one selected proposal
renderMultiStageWidget(pg, proposal) ==
  LET aipWidgets == {w \in pg.widgets : UrlType(w) = "aip"}
      pg1 == IF proposal.type = "aip"
             THEN [pg EXCEPT !.renderingUrls = @ \ aipWidgets,
                             !.fetchingUrls = @ \ aipWidgets,
                             !.widgets = @ \ aipWidgets]
             ELSE pg
  IN IF proposal.url \in pg1.widgets THEN pg1
     ELSE IF proposal.url \in pg1.renderingUrls THEN pg1
     ELSE [pg1 EXCEPT !.widgets = @ \cup {proposal.url}]

\* the selected.forEach of renderSelectedProposals
RECURSIVE RenderLoop(_, _, _)
RenderLoop(pg, sel, i) ==
  IF i > Len(sel) THEN pg
  ELSE IF sel[i].url \in pg.renderingUrls THEN RenderLoop(pg, sel, i + 1)
  ELSE RenderLoop(
         renderMultiStageWidget(
           [pg EXCEPT !.renderingUrls = @ \cup {sel[i].url}], sel[i]),
         sel, i + 1)

renderSelectedProposals(pg, snapshotProposals, aipProposals) ==
  LET combinedProposals == snapshotProposals \o aipProposals
      sel == selectTopProposalsInline(combinedProposals)
      logged == [pg EXCEPT !.pass.sel =
                   [ran |-> TRUE,
                    cands |-> [i \in 1..Len(combinedProposals) |-> combinedProposals[i].url],
                    selected |-> sel,
                    pending |-> PendingOf(pg.pass)]]
  IN IF combinedProposals = <<>> THEN pg
     ELSE RenderLoop(logged, sel, 1)

Valid(pass, urls) ==
  SelectSeq(urls, LAMBDA u : pass.res[u] # Null /\ pass.res[u].title # "")

\* showNetworkErrorWidget(count, type, getOrCreateWidgetsContainerFn): the
\* element is built, then getOrCreateWidgetsContainerFn() is called to find
\* the place to append it; calling a parameter that was not passed throws
showNetworkErrorWidget(pg, args) ==
  IF Len(args) < 3
  THEN [threw |-> TRUE, pg |-> pg]
  ELSE [threw |-> FALSE, pg |-> [pg EXCEPT !.pass.errorWidget = TRUE]]

\* the .then of the Snapshot Promise.allSettled.  When every Snapshot fetch
\* failed, showNetworkErrorWidget(count, 'snapshot') is called without its
\* third argument, the call of the missing function throws, and the .catch
\* of the chain logs the error: nothing is stored or rendered.
SnapshotBatchHandler(pg) ==
  LET snaps == SnapshotLinks(pg.pass.links)
      validSnapshots == Valid(pg.pass, snaps)
      snapshotProposals ==
        [i \in 1..Len(validSnapshots) |->
           LET data == pg.pass.res[validSnapshots[i]] IN
           [url |-> validSnapshots[i],
            type |-> "snapshot",
            stage |-> IF data.stage # "" THEN data.stage ELSE "snapshot",
            status |-> IF data.status # "" THEN data.status ELSE "unknown",
            originalOrder |-> findIndex(orderedProposals(pg.pass.links),
                                        validSnapshots[i])]]
      shown == showNetworkErrorWidget(pg, <<Len(snaps), "snapshot">>)
      pg1 == IF Len(validSnapshots) < Len(snaps) /\ validSnapshots = <<>>
             THEN shown.pg ELSE pg
  IN IF Len(validSnapshots) < Len(snaps) /\ validSnapshots = <<>> /\ shown.threw
     THEN [pg EXCEPT !.pass.caught = TRUE]
     ELSE IF AipLinks(pg.pass.links) = <<>>
          THEN renderSelectedProposals(pg1, snapshotProposals, <<>>)
          ELSE [pg1 EXCEPT !.winSnapshot = snapshotProposals]

\* the .then of the AIP Promise.allSettled
AipBatchHandler(pg) ==
  LET aips == AipLinks(pg.pass.links)
      validAips == Valid(pg.pass, aips)
      aipProposals ==
        [i \in 1..Len(validAips) |->
           LET data == pg.pass.res[validAips[i]] IN
           [url |-> validAips[i],
            type |-> "aip",
            stage |-> "aip",
            status |-> IF data.status # "" THEN data.status ELSE "unknown",
            originalOrder |-> findIndex(orderedProposals(pg.pass.links),
                                        validAips[i])]]
      pg1 == [pg EXCEPT !.winAip = aipProposals]
  IN renderSelectedProposals(pg1, pg1.winSnapshot, aipProposals)

BatchSettled(pass, urls) == \A i \in 1..Len(urls) : pass.res[urls[i]] # Pending

\* the per-URL .then (fetchingUrls.delete) and, when it settles the last
\* promise of its batch, the batch handler that follows in the same turn
SettleInPass(pg, url, rec) ==
  LET pg1 == [pg EXCEPT !.fetchingUrls = @ \ {url}, !.pass.res[url] = rec]
      snaps == SnapshotLinks(pg1.pass.links)
      aips == AipLinks(pg1.pass.links)
  IN IF UrlType(url) = "snapshot"
     THEN IF BatchSettled(pg1.pass, snaps) THEN SnapshotBatchHandler(pg1) ELSE pg1
     ELSE IF BatchSettled(pg1.pass, aips) THEN AipBatchHandler(pg1) ELSE pg1

SetPage(p, pg) ==
  /\ renderingUrls' = pg.renderingUrls
  /\ fetchingUrls' = pg.fetchingUrls
  /\ widgets' = pg.widgets
  /\ winSnapshot' = pg.winSnapshot
  /\ winAip' = pg.winAip
  /\ passes' = [passes EXCEPT ![p] = pg.pass]

passVars == <<passes, fetchingUrls, renderingUrls, widgets, winSnapshot, winAip>>

\* the fetch of a call ends with rec (Null when it failed): the result goes
\* to the awaiting caller, or to the pass that issued the fetch
Finish(c, rec, via, kind) ==
  /\ calls' = calls \ {c}
  /\ IF c.caller \in Directs
     THEN /\ returned' = [returned EXCEPT ![c.caller] =
                            [@ EXCEPT !.pc = "done", !.rec = rec, !.via = via,
                                      !.lastKind = kind]]
          /\ UNCHANGED passVars
     ELSE /\ SetPage(c.caller, SettleInPass(Page(c.caller), c.url, rec))
          /\ UNCHANGED returned

\* the fetcher of call c issues its next request
NextRequest(c, kind) ==
  /\ calls' = (calls \ {c}) \cup {[c EXCEPT !.step = @ + 1]}
  /\ IF c.caller \in Directs
     THEN returned' = [returned EXCEPT ![c.caller] =
                         [@ EXCEPT !.lastKind = kind]]
     ELSE UNCHANGED returned
  /\ UNCHANGED passVars

\* fetchSnapshotProposal receives the answer to its current request
SnapshotResponse(c, kind) ==
  /\ c \in calls /\ c.impl = "snapshot"
  /\ LET outcome == SnapshotOutcome(c.url, c.step, kind)
         rec == Rec(c.url, now, "snapshot")
     IN CASE outcome = "success" ->
               /\ proposalCache' = [proposalCache EXCEPT ![c.url] = rec]
               /\ Finish(c, rec, "fetch", kind)
          [] outcome = "next" ->
               /\ UNCHANGED proposalCache
               /\ NextRequest(c, kind)
          [] OTHER ->
               /\ UNCHANGED proposalCache
               /\ Finish(c, Null, "none", kind)
  /\ UNCHANGED <<now, world, tallyCache, thread>>

\* fetchAIPProposal receives the result of fetchAIPFromSubgraph (step 1) or
\* of fetchAIPFromOnChain (step 2)
AipResponse(c, kind) ==
  /\ c \in calls /\ c.impl = "aip"
  /\ LET outcome == AipOutcome(c.step, kind)
         rec == Rec(c.url, now, IF c.step = 1 THEN "thegraph" ELSE "onchain")
     IN CASE outcome = "success" ->
               /\ proposalCache' = [proposalCache EXCEPT ![c.url] = rec]
               /\ Finish(c, rec, "fetch", kind)
          [] outcome = "next" ->
               /\ UNCHANGED proposalCache
               /\ NextRequest(c, kind)
          [] OTHER ->
               /\ UNCHANGED proposalCache
               /\ Finish(c, Null, "none", kind)
  /\ UNCHANGED <<now, world, tallyCache, thread>>

\* the two filter(...) / map(...) of a pass over its URLs, in source order:
\* fetchingUrls.add(url), then the head of fetchProposalDataByType(url, type)
RECURSIVE StartFetches(_, _, _, _)
StartFetches(st, p, urls, i) ==
  IF i > Len(urls) THEN st
  ELSE LET url == urls[i]
           skip == url \in st.fetching \/ url \in st.rendering
           head == ResolveHead(url, FALSE, st.cache)
       IN IF skip THEN StartFetches(st, p, urls, i + 1)
          ELSE StartFetches(
                 [st EXCEPT !.cache = head.cache,
                            !.fetching = @ \cup {url},
                            !.issued = Append(@, url),
                            !.calls = IF head.kind = "fetch"
                                      THEN @ \cup {NewCall(p, url, FALSE)} ELSE @,
                            !.immediate = IF head.kind = "fetch" THEN @
                                          ELSE Append(@, <<url, head.rec>>)],
                 p, urls, i + 1)

\* the promises that are settled without any request (cache hits), in the
\* order their reactions run
RECURSIVE SettleImmediate(_, _, _)
SettleImmediate(pg, immediate, i) ==
  IF i > Len(immediate) THEN pg
  ELSE SettleImmediate(SettleInPass(pg, immediate[i][1], immediate[i][2]),
                       immediate, i + 1)

\* setupTopicWidget -> setupTopicWidgetWithProposals(allProposals), run by
\* the debounce timer, the mutation observer or a page change
PassStart(p) ==
  /\ PendingOf(passes[p]) = {}
  /\ LET currentUrls == Range(thread)
         urlsMatch == widgets = currentUrls
     IN IF urlsMatch /\ widgets # {}
        THEN UNCHANGED <<proposalCache, calls, passVars>>
        ELSE IF thread = <<>>
        THEN /\ widgets' = {}
             /\ renderingUrls' = {}
             /\ fetchingUrls' = {}
             /\ passes' = [passes EXCEPT ![p] = PassIdle]
             /\ UNCHANGED <<proposalCache, calls, winSnapshot, winAip>>
        ELSE LET st0 == [cache |-> proposalCache, calls |-> calls,
                         fetching |-> {}, rendering |-> {},
                         issued |-> <<>>, immediate |-> <<>>]
                 st1 == StartFetches(st0, p, SnapshotLinks(thread), 1)
                 st2 == StartFetches(st1, p, AipLinks(thread), 1)
                 pass0 == [links |-> thread,
                           res |-> [u \in PassUrls |->
                                      IF u \in Range(st2.issued)
                                      THEN Pending ELSE Unused],
                           sel |-> NoSel,
                           errorWidget |-> FALSE, caught |-> FALSE]
                 pg0 == [renderingUrls |-> {}, fetchingUrls |-> st2.fetching,
                         widgets |-> {}, winSnapshot |-> winSnapshot,
                         winAip |-> winAip, pass |-> pass0]
             IN /\ proposalCache' = st2.cache
                /\ calls' = st2.calls
                /\ SetPage(p, SettleImmediate(pg0, st2.immediate, 1))
  /\ UNCHANGED <<now, world, tallyCache, returned, thread>>

\* the topic changes (a post with links is added, or another topic opens)
Threads ==
  {s \in SeqsUpTo(PassUrls, Cardinality(PassUrls)) :
     \A i, j \in 1..Len(s) : i # j => s[i] # s[j]}

TopicChanges(t) ==
  /\ t # thread
  /\ thread' = t
  /\ UNCHANGED <<now, world, proposalCache, tallyCache, calls, returned, passVars>>

(***************************************************************************)
(* The Tally resolver (its own initializer and its own proposalCache)      *)
(***************************************************************************)
\* what extractProposalInfo found in the URL
TallyHasGovernor(url) == url = "T1"
TallyHasProposalId(url) == url = "T1"

TallyKinds == {"found", "nothing"}

\* fetchProposalData of the Tally initializer, up to its first request
TallyResolveCall(d, url, forceRefresh) ==
  /\ returned[d].pc # "waiting"
  /\ LET hit == CacheConsulted(forceRefresh, tallyCache, url)
                  /\ IsFresh(tallyCache[url], now)
         base == [Idle EXCEPT !.url = url, !.force = forceRefresh,
                              !.ageAtCall = AgeOf(tallyCache, url)]
         first == IF TallyHasGovernor(url) THEN 1
                  ELSE IF TallyHasProposalId(url) THEN 2 ELSE 0
     IN IF hit
        THEN /\ returned' = [returned EXCEPT ![d] =
                               [base EXCEPT !.pc = "done", !.via = "cache",
                                            !.rec = tallyCache[url]]]
             /\ UNCHANGED <<tallyCache, calls>>
        ELSE /\ tallyCache' = IF CacheConsulted(forceRefresh, tallyCache, url)
                              THEN [tallyCache EXCEPT ![url] = Null]
                              ELSE tallyCache
             /\ IF first = 0
                THEN /\ returned' = [returned EXCEPT ![d] =
                                       [base EXCEPT !.pc = "done",
                                                    !.via = "fallback",
                                                    !.rec = FallbackRec(url)]]
                     /\ UNCHANGED calls
                ELSE /\ returned' = [returned EXCEPT ![d] =
                                       [base EXCEPT !.pc = "waiting"]]
                     /\ calls' = calls \cup
                          {[NewCall(d, url, forceRefresh) EXCEPT !.step = first]}
  /\ UNCHANGED <<now, world, proposalCache, thread, passVars>>

\* fetchProposalByOnchainId (step 1) or fetchProposalByInternalId (step 2)
\* answers; on nothing found the next priority is tried, then the fallback
TallyResponse(c, kind) ==
  /\ c \in calls /\ c.impl = "tally"
  /\ LET rec == Rec(c.url, now, "tally")
     IN IF kind = "found"
        THEN /\ tallyCache' = [tallyCache EXCEPT ![c.url] = rec]
             /\ Finish(c, rec, "fetch", kind)
        ELSE /\ UNCHANGED tallyCache
             /\ IF c.step = 1 /\ TallyHasProposalId(c.url)
                THEN NextRequest(c, kind)
                ELSE Finish(c, FallbackRec(c.url), "fallback", kind)
  /\ UNCHANGED <<now, world, proposalCache, thread>>

(***************************************************************************)
(* The clock (Date.now())                                                  *)
(***************************************************************************)
TickSteps == {1, 299999}

TicksSoFar(t) == (t \div 299999) + (t % 299999)

Tick(d) ==
  /\ TicksSoFar(now) < MaxTicks
  /\ now' = now + d
  /\ UNCHANGED <<world, proposalCache, tallyCache, calls, returned, thread, passVars>>

(***************************************************************************)
(* Status strings: getStatePriority's callers, formatStatusForDisplay and  *)
(* the status detection of renderStatusWidget work on the characters of    *)
(* the status text                                                         *)
(***************************************************************************)
\* the characters of every status text the model uses
Chars ==
  ("" :> <<>>) @@
  ("queued" :> <<"q", "u", "e", "u", "e", "d">>) @@
  ("Queued" :> <<"Q", "u", "e", "u", "e", "d">>) @@
  ("queuing" :> <<"q", "u", "e", "u", "i", "n", "g">>) @@
  ("defeated" :> <<"d", "e", "f", "e", "a", "t", "e", "d">>) @@
  ("Defeated" :> <<"D", "e", "f", "e", "a", "t", "e", "d">>) @@
  ("defeat" :> <<"d", "e", "f", "e", "a", "t">>) @@
  ("rejected" :> <<"r", "e", "j", "e", "c", "t", "e", "d">>) @@
  ("Pending Execution" :> <<"P", "e", "n", "d", "i", "n", "g", " ", "E", "x", "e", "c", "u", "t", "i", "o", "n">>) @@
  ("pending_execution" :> <<"p", "e", "n", "d", "i", "n", "g", "_", "e", "x", "e", "c", "u", "t", "i", "o", "n">>) @@
  ("pendingexecution" :> <<"p", "e", "n", "d", "i", "n", "g", "e", "x", "e", "c", "u", "t", "i", "o", "n">>) @@
  (" PENDING  EXECUTION " :> <<" ", "P", "E", "N", "D", "I", "N", "G", " ", " ", "E", "X", "E", "C", "U", "T", "I", "O", "N", " ">>) @@
  ("quorum not reached" :> <<"q", "u", "o", "r", "u", "m", " ", "n", "o", "t", " ", "r", "e", "a", "c", "h", "e", "d">>) @@
  ("Quorum_Not_Reached" :> <<"Q", "u", "o", "r", "u", "m", "_", "N", "o", "t", "_", "R", "e", "a", "c", "h", "e", "d">>) @@
  ("active" :> <<"a", "c", "t", "i", "v", "e">>) @@
  ("open" :> <<"o", "p", "e", "n">>) @@
  ("executed" :> <<"e", "x", "e", "c", "u", "t", "e", "d">>) @@
  ("pending" :> <<"p", "e", "n", "d", "i", "n", "g">>) @@
  ("unknown" :> <<"u", "n", "k", "n", "o", "w", "n">>) @@
  ("inactive" :> <<"i", "n", "a", "c", "t", "i", "v", "e">>) @@
  ("pending-execution" :> <<"p", "e", "n", "d", "i", "n", "g", "-", "e", "x", "e", "c", "u", "t", "i", "o", "n">>) @@
  ("canceled" :> <<"c", "a", "n", "c", "e", "l", "e", "d">>) @@
  ("succeeded" :> <<"s", "u", "c", "c", "e", "e", "d", "e", "d">>) @@
  ("failed" :> <<"f", "a", "i", "l", "e", "d">>) @@
  ("cancelled" :> <<"c", "a", "n", "c", "e", "l", "l", "e", "d">>) @@
  ("expired" :> <<"e", "x", "p", "i", "r", "e", "d">>) @@
  ("crosschainexecuted" :> <<"c", "r", "o", "s", "s", "c", "h", "a", "i", "n", "e", "x", "e", "c", "u", "t", "e", "d">>) @@
  ("completed" :> <<"c", "o", "m", "p", "l", "e", "t", "e", "d">>) @@
  ("passed" :> <<"p", "a", "s", "s", "e", "d">>) @@
  ("voting" :> <<"v", "o", "t", "i", "n", "g">>) @@
  ("created" :> <<"c", "r", "e", "a", "t", "e", "d">>) @@
  ("closed" :> <<"c", "l", "o", "s", "e", "d">>) @@
  ("ended" :> <<"e", "n", "d", "e", "d">>) @@
  ("quorumnotreached" :> <<"q", "u", "o", "r", "u", "m", "n", "o", "t", "r", "e", "a", "c", "h", "e", "d">>) @@
  ("pending execution" :> <<"p", "e", "n", "d", "i", "n", "g", " ", "e", "x", "e", "c", "u", "t", "i", "o", "n">>) @@
  ("Rejected" :> <<"R", "e", "j", "e", "c", "t", "e", "d">>) @@
  ("Failed" :> <<"F", "a", "i", "l", "e", "d">>) @@
  ("Cancelled" :> <<"C", "a", "n", "c", "e", "l", "l", "e", "d">>) @@
  ("Expired" :> <<"E", "x", "p", "i", "r", "e", "d">>) @@
  ("Executed" :> <<"E", "x", "e", "c", "u", "t", "e", "d">>) @@
  ("Completed" :> <<"C", "o", "m", "p", "l", "e", "t", "e", "d">>) @@
  ("Passed" :> <<"P", "a", "s", "s", "e", "d">>) @@
  ("Active" :> <<"A", "c", "t", "i", "v", "e">>) @@
  ("Created" :> <<"C", "r", "e", "a", "t", "e", "d">>) @@
  ("Pending" :> <<"P", "e", "n", "d", "i", "n", "g">>) @@
  ("Closed" :> <<"C", "l", "o", "s", "e", "d">>) @@
  ("Ended" :> <<"E", "n", "d", "e", "d">>) @@
  ("Quorum Not Reached" :> <<"Q", "u", "o", "r", "u", "m", " ", "N", "o", "t", " ", "R", "e", "a", "c", "h", "e", "d">>) @@
  ("Unknown" :> <<"U", "n", "k", "n", "o", "w", "n">>) @@
  ("quorum_not_reached" :> <<"q", "u", "o", "r", "u", "m", "_", "n", "o", "t", "_", "r", "e", "a", "c", "h", "e", "d">>) @@
  ("quorum" :> <<"q", "u", "o", "r", "u", "m">>) @@
  ("not" :> <<"n", "o", "t">>) @@
  ("reached" :> <<"r", "e", "a", "c", "h", "e", "d">>) @@
  ("Pending execution" :> <<"P", "e", "n", "d", "i", "n", "g", " ", "e", "x", "e", "c", "u", "t", "i", "o", "n">>) @@
  ("Quorum not reached" :> <<"Q", "u", "o", "r", "u", "m", " ", "n", "o", "t", " ", "r", "e", "a", "c", "h", "e", "d">>)

UpperLetters == <<"A", "B", "C", "D", "E", "F", "G", "H", "I", "J", "K", "L", "M", "N", "O", "P", "Q", "R", "S", "T", "U", "V", "W", "X", "Y", "Z">>

LowerLetters == <<"a", "b", "c", "d", "e", "f", "g", "h", "i", "j", "k", "l", "m", "n", "o", "p", "q", "r", "s", "t", "u", "v", "w", "x", "y", "z">>

LetterIndex(letters, c) == CHOOSE i \in 1..Len(letters) : letters[i] = c

\* String.prototype.toLowerCase / toUpperCase on one character
toLowerCaseChar(c) ==
  IF c \in Range(UpperLetters) THEN LowerLetters[LetterIndex(UpperLetters, c)] ELSE c

toUpperCaseChar(c) ==
  IF c \in Range(LowerLetters) THEN UpperLetters[LetterIndex(LowerLetters, c)] ELSE c

RECURSIVE toLowerCase(_)
toLowerCase(s) ==
  IF s = <<>> THEN <<>> ELSE <<toLowerCaseChar(Head(s))>> \o toLowerCase(Tail(s))

isWhitespace(c) == c = " "

RECURSIVE trimStart(_)
trimStart(s) ==
  IF s # <<>> /\ isWhitespace(Head(s)) THEN trimStart(Tail(s)) ELSE s

RECURSIVE trimEnd(_)
trimEnd(s) ==
  IF s # <<>> /\ isWhitespace(s[Len(s)]) THEN trimEnd(SubSeq(s, 1, Len(s) - 1)) ELSE s

\* String.prototype.trim
trim(s) == trimEnd(trimStart(s))

\* String.prototype.includes
includes(s, sub) ==
  \E i \in 0..(Len(s) - Len(sub)) : SubSeq(s, i + 1, i + Len(sub)) = sub

\* status.replace(/[_\s]/g, '')
removeSpacesAndUnderscores(s) == SelectSeq(s, LAMBDA c : ~isWhitespace(c) /\ c # "_")

\* statusValue.charAt(0).toUpperCase() + statusValue.slice(1)
capitalizeFirst(s) ==
  IF s = <<>> THEN <<>> ELSE <<toUpperCaseChar(Head(s))>> \o Tail(s)

\* the entries of statusMap of formatStatusForDisplay, in insertion order
statusMap ==
  <<<<"defeated", "Defeated">>,
    <<"defeat", "Defeated">>,
    <<"rejected", "Rejected">>,
    <<"failed", "Failed">>,
    <<"cancelled", "Cancelled">>,
    <<"canceled", "Cancelled">>,
    <<"expired", "Expired">>,
    <<"executed", "Executed">>,
    <<"crosschainexecuted", "Executed">>,
    <<"completed", "Completed">>,
    <<"passed", "Passed">>,
    <<"active", "Active">>,
    <<"open", "Active">>,
    <<"voting", "Active">>,
    <<"created", "Created">>,
    <<"pending", "Pending">>,
    <<"queued", "Queued">>,
    <<"closed", "Closed">>,
    <<"ended", "Ended">>,
    <<"quorum not reached", "Quorum Not Reached">>,
    <<"quorumnotreached", "Quorum Not Reached">>,
    <<"pending execution", "Pending Execution">>,
    <<"pendingexecution", "Pending Execution">>>>

RECURSIVE PartialMatch(_, _)
\* the for-loop over Object.entries(statusMap): the first entry whose key
\* includes the text or is included in it (0 when there is none)
PartialMatch(normalized, i) ==
  IF i > Len(statusMap) THEN 0
  ELSE IF includes(normalized, Chars[statusMap[i][1]])
          \/ includes(Chars[statusMap[i][1]], normalized)
       THEN i
       ELSE PartialMatch(normalized, i + 1)

\* formatStatusForDisplay(statusValue) of lib/utils/formatting.js, on the
\* characters of statusValue
formatStatusForDisplay(statusValue) ==
  IF statusValue = <<>> THEN Chars["Unknown"]
  ELSE LET normalized == trim(toLowerCase(statusValue))
           exact == {i \in 1..Len(statusMap) : Chars[statusMap[i][1]] = normalized}
           partial == PartialMatch(normalized, 1)
       IN IF exact # {} THEN Chars[statusMap[CHOOSE i \in exact : TRUE][2]]
          ELSE IF partial # 0 THEN Chars[statusMap[partial][2]]
          ELSE capitalizeFirst(statusValue)

\* the status texts handed to the status functions
StatusInputs ==
  {"",
   "queued",
   "Queued",
   "queuing",
   "defeated",
   "Defeated",
   "defeat",
   "rejected",
   "Pending Execution",
   "pending_execution",
   "pendingexecution",
   " PENDING  EXECUTION ",
   "quorum not reached",
   "Quorum_Not_Reached",
   "active",
   "open",
   "executed",
   "pending",
   "unknown",
   "inactive",
   "pending-execution",
   "canceled",
   "succeeded"}


(***************************************************************************)
(* The status detection of renderStatusWidget                              *)
(***************************************************************************)
defeatStatuses == {"defeat", "defeated", "rejected"}

\* proposalData.quorum is undefined (defined = FALSE) or a number
QuorumInputs ==
  {[defined |-> FALSE, value |-> 0], [defined |-> TRUE, value |-> 0],
   [defined |-> TRUE, value |-> 100]}

VotesForInputs == {0, 40, 60, 90}
VotesAgainstInputs == {0, 40, 60}
VotesAbstainInputs == {0, 10}

\* let quorumNum = 0; if (quorum) { quorumNum = Number(quorum) }
QuorumNum(quorum) == IF quorum.defined /\ quorum.value # 0 THEN quorum.value ELSE 0

HasMajoritySupportOrTie(votesFor, votesAgainst) == votesFor >= votesAgainst

\* const hasMajoritySupport = votesForNum > votesAgainstNum
HasMajoritySupport(votesFor, votesAgainst) == votesFor > votesAgainst

\* The flags renderStatusWidget derives from proposalData.status, the vote
\* counts and the quorum (the same statements in the governance initializer
\* and in the Tally initializer), and the class of the status badge.
StatusDetection(rawName, votesFor, votesAgainst, votesAbstain, quorum) ==
  LET rawStatus == IF Chars[rawName] = <<>> THEN Chars["unknown"] ELSE Chars[rawName]
      status == trim(toLowerCase(rawStatus))
      normalizedStatus == removeSpacesAndUnderscores(status)
      isPendingExecution0 ==
        \/ includes(normalizedStatus, Chars["pendingexecution"])
        \/ includes(status, Chars["pending execution"])
        \/ includes(status, Chars["pending_execution"])
      isQuorumNotReached ==
        \/ includes(normalizedStatus, Chars["quorumnotreached"])
        \/ includes(status, Chars["quorum not reached"])
        \/ includes(status, Chars["quorum_not_reached"])
        \/ includes(status, Chars["quorumnotreached"])
        \/ /\ includes(status, Chars["quorum"])
           /\ includes(status, Chars["not"])
           /\ includes(status, Chars["reached"])
      isDefeat ==
        /\ ~isQuorumNotReached
        /\ \E s \in defeatStatuses :
             \/ status = Chars[s]
             \/ includes(status, Chars[s]) /\ ~includes(status, Chars["quorum"])
      totalVotes == votesFor + votesAgainst + votesAbstain
      quorumNum == QuorumNum(quorum)
      quorumReached == quorumNum > 0 /\ totalVotes >= quorumNum
      quorumNotReachedByVotes ==
        quorumNum > 0 /\ totalVotes > 0 /\ totalVotes < quorumNum
      proposalPassed == quorumReached /\ HasMajoritySupport(votesFor, votesAgainst)
      isPendingExecution ==
        isPendingExecution0 \/ (status = Chars["queued"] /\ proposalPassed)
      finalIsQuorumNotReached ==
        \/ isQuorumNotReached
        \/ quorumNotReachedByVotes /\ status \in {Chars["defeated"], Chars["defeat"]}
      finalIsDefeat == isDefeat /\ ~finalIsQuorumNotReached /\ quorumReached
      free == ~isPendingExecution /\ ~finalIsDefeat /\ ~finalIsQuorumNotReached
      isActive == free /\ status \in {Chars["active"], Chars["open"]}
      isExecuted ==
        free /\ status \in {Chars["executed"], Chars["crosschainexecuted"],
                            Chars["completed"]}
      isQueued == free /\ status \in {Chars["queued"], Chars["queuing"]}
      isPending ==
        /\ free /\ ~isQueued
        /\ \/ status = Chars["pending"]
           \/ includes(status, Chars["pending"]) /\ ~isPendingExecution
  IN [exactStatus |-> rawStatus,
      status |-> status,
      isPendingExecution |-> isPendingExecution,
      isQuorumNotReached |-> isQuorumNotReached,
      finalIsQuorumNotReached |-> finalIsQuorumNotReached,
      finalIsDefeat |-> finalIsDefeat,
      quorumReached |-> quorumReached,
      badge |-> IF isPendingExecution THEN "pending"
                ELSE IF isActive THEN "active"
                ELSE IF isExecuted THEN "executed"
                ELSE IF isQueued THEN "queued"
                ELSE IF isPending THEN "pending"
                ELSE IF finalIsDefeat THEN "defeated"
                ELSE IF finalIsQuorumNotReached THEN "quorum-not-reached"
                ELSE "inactive"]

\* displayStatus of renderStatusWidget in the governance initializer
DisplayStatus(d) ==
  IF d.isPendingExecution /\ d.status = Chars["queued"]
  THEN Chars["Pending Execution"]
  ELSE IF d.finalIsQuorumNotReached /\ ~d.isQuorumNotReached
  THEN Chars["Quorum Not Reached"]
  ELSE IF d.finalIsDefeat /\ d.quorumReached THEN Chars["Defeated"]
  ELSE formatStatusForDisplay(d.exactStatus)

\* displayStatus of renderStatusWidget in the Tally initializer
TallyDisplayStatus(d) ==
  IF d.isPendingExecution /\ d.status = Chars["queued"]
  THEN Chars["Pending execution"]
  ELSE IF d.finalIsQuorumNotReached /\ ~d.isQuorumNotReached
  THEN Chars["Quorum not reached"]
  ELSE IF d.finalIsDefeat /\ d.quorumReached THEN Chars["Defeated"]
  ELSE d.exactStatus

\* the statuses a fetcher hands to getStatePriority
PriorityInputs ==
  {"Active", " queued ", "EXECUTED", "active", "open", "voting", "created",
   "pending", "pending-execution", "pending execution", "queued",
   "executed", "completed", "passed", "closed", "ended", "expired",
   "failed", "defeated", "rejected", "quorum-not-reached",
   "quorum not reached", "cancelled", "canceled", "unknown", "null"}

\* statusCall: the last call of a status function
\*   op: "none", "getStatePriority", "formatStatusForDisplay",
\*       "renderStatusWidget" or "renderStatusWidgetTally"
VARIABLES statusCall

StIdle ==
  [op |-> "none", status |-> "", votesFor |-> 0, votesAgainst |-> 0,
   votesAbstain |-> 0, quorum |-> [defined |-> FALSE, value |-> 0],
   priority |-> 0, label |-> <<>>, badge |-> "", isPendingExecution |-> FALSE]

CallGetStatePriority(status) ==
  /\ statusCall.op = "none"
  /\ statusCall' = [StIdle EXCEPT !.op = "getStatePriority", !.status = status,
                          !.priority = getStatePriority(status)]

CallFormatStatusForDisplay(status) ==
  /\ statusCall.op = "none"
  /\ statusCall' = [StIdle EXCEPT !.op = "formatStatusForDisplay", !.status = status,
                          !.label = formatStatusForDisplay(Chars[status])]

\* renderStatusWidget of the governance initializer on one proposal
CallRenderStatusWidget(status, votesFor, votesAgainst, votesAbstain, quorum) ==
  /\ statusCall.op = "none"
  /\ LET d == StatusDetection(status, votesFor, votesAgainst, votesAbstain, quorum)
     IN statusCall' = [op |-> "renderStatusWidget", status |-> status,
               votesFor |-> votesFor, votesAgainst |-> votesAgainst,
               votesAbstain |-> votesAbstain, quorum |-> quorum,
               priority |-> 0, label |-> DisplayStatus(d), badge |-> d.badge,
               isPendingExecution |-> d.isPendingExecution]

\* renderStatusWidget of the Tally initializer on one proposal
CallRenderStatusWidgetTally(status, votesFor, votesAgainst, votesAbstain, quorum) ==
  /\ statusCall.op = "none"
  /\ LET d == StatusDetection(status, votesFor, votesAgainst, votesAbstain, quorum)
     IN statusCall' = [op |-> "renderStatusWidgetTally", status |-> status,
               votesFor |-> votesFor, votesAgainst |-> votesAgainst,
               votesAbstain |-> votesAbstain, quorum |-> quorum,
               priority |-> 0, label |-> TallyDisplayStatus(d), badge |-> d.badge,
               isPendingExecution |-> d.isPendingExecution]

(***************************************************************************)
(* mergeProposalData (aip-service)                                         *)
(***************************************************************************)
\* a property that the payload does not have
Undefined == "undefined"

\* if (x), x || y: undefined and the empty string are falsy
Truthy(v) == v \notin {Undefined, ""}

\* a payload that was not passed (null or undefined)
AbsentPayload ==
  [present |-> FALSE, title |-> Undefined, description |-> Undefined,
   forVotes |-> Undefined, againstVotes |-> Undefined, status |-> Undefined]

\* the on-chain payloads: the title and description are the defaults of
\* transformAIPDataFromOnChain
OnChainPayloads ==
  {AbsentPayload} \cup
  [present : {TRUE}, title : {Undefined, "Proposal 7"},
   description : {Undefined, "Aave Governance Proposal 7"},
   forVotes : {Undefined, "10"}, againstVotes : {Undefined, "5"},
   status : {Undefined, "executed"}]

MarkdownPayloads ==
  {AbsentPayload} \cup
  [present : {TRUE}, title : {Undefined, "Document title"},
   description : {Undefined, "Document text"},
   forVotes : {Undefined}, againstVotes : {Undefined}, status : {Undefined}]

SubgraphPayloads ==
  {AbsentPayload} \cup
  [present : {TRUE}, title : {Undefined, "X"},
   description : {Undefined, "Indexed text"},
   forVotes : {Undefined, "3"}, againstVotes : {Undefined, "2"},
   status : {Undefined, "active"}]

\* reading a property of null or undefined throws a TypeError
MergeThrew ==
  [threw |-> TRUE, title |-> Undefined, description |-> Undefined,
   forVotes |-> Undefined, againstVotes |-> Undefined, status |-> Undefined,
   contentSource |-> Undefined, dataSource |-> Undefined]

\* x || y
OrElse(x, y) == IF Truthy(x) THEN x ELSE y

mergeProposalData(onChainData, markdownData, subgraphMetadata) ==
  LET \* const merged = { ...onChainData }
      m0 == [title |-> onChainData.title, description |-> onChainData.description,
             forVotes |-> onChainData.forVotes,
             againstVotes |-> onChainData.againstVotes,
             status |-> onChainData.status, contentSource |-> Undefined]
      m1 == IF markdownData.present
            THEN [m0 EXCEPT !.title = OrElse(markdownData.title, m0.title),
                            !.description = OrElse(markdownData.description,
                                                   m0.description),
                            !.contentSource = "markdown"]
            ELSE IF subgraphMetadata.present
            THEN [m0 EXCEPT !.title = OrElse(subgraphMetadata.title, m0.title),
                            !.description = OrElse(subgraphMetadata.description,
                                                   m0.description),
                            !.contentSource = "subgraph",
                            !.forVotes =
                               IF ~Truthy(m0.forVotes) /\ Truthy(subgraphMetadata.forVotes)
                               THEN subgraphMetadata.forVotes ELSE m0.forVotes,
                            !.againstVotes =
                               IF ~Truthy(m0.againstVotes)
                                  /\ Truthy(subgraphMetadata.againstVotes)
                               THEN subgraphMetadata.againstVotes
                               ELSE m0.againstVotes]
            ELSE m0
  IN IF ~onChainData.present
     THEN \* onChainData.forVotes of null
          MergeThrew
     ELSE [threw |-> FALSE, title |-> m1.title, description |-> m1.description,
           forVotes |-> IF onChainData.forVotes # Undefined
                        THEN onChainData.forVotes ELSE m1.forVotes,
           againstVotes |-> IF onChainData.againstVotes # Undefined
                            THEN onChainData.againstVotes ELSE m1.againstVotes,
           status |-> IF onChainData.status # Undefined
                      THEN onChainData.status ELSE m1.status,
           contentSource |-> m1.contentSource,
           dataSource |-> IF onChainData.present THEN "on-chain"
                          ELSE IF subgraphMetadata.present THEN "subgraph"
                          ELSE "unknown"]

\* merges: the calls of mergeProposalData so far, with their arguments
VARIABLES merges

MergeRecord(onChainData, markdownData, subgraphMetadata) ==
  [onChainData |-> onChainData, markdownData |-> markdownData,
   subgraphMetadata |-> subgraphMetadata,
   merged |-> mergeProposalData(onChainData, markdownData, subgraphMetadata)]

CallMergeProposalData(onChainData, markdownData, subgraphMetadata) ==
  /\ merges = <<>>
  /\ merges' = <<MergeRecord(onChainData, markdownData, subgraphMetadata)>>

\* the same on-chain and indexed payloads merged again with another document
CallMergeProposalDataAgain(markdownData) ==
  /\ Len(merges) = 1
  /\ markdownData # merges[1].markdownData
  /\ merges' = Append(merges, MergeRecord(merges[1].onChainData, markdownData,
                                          merges[1].subgraphMetadata))

(***************************************************************************)
(* The classifier (url-parser.js): extractSnapshotProposalInfo,            *)
(* extractAIPProposalInfo and extractProposalInfo on the characters of     *)
(* their argument, and the state mapping of the on-chain AIP path          *)
(***************************************************************************)
\* the texts handed to the classifier
UrlTexts ==
  {"https://vote.onaave.com/proposal/?proposalId=420",
   "https://app.aave.com/governance/v3/proposal/?proposalId=420",
   "vote.onaave.com/proposal/?proposalId=7",
   "https://governance.aave.com/t/some-slug/123",
   "https://app.aave.com/governance/proposal/12",
   "https://governance.aave.com/aip/9",
   "https://governance.aave.com/?proposalId=5",
   "https://vote.onaave.com/proposal/?proposalId=0",
   "https://app.aave.com/governance/v3/proposal/?proposalId=007&ipfsHash=x",
   "https://snapshot.org/#/aave.eth/proposal/0xabc1",
   "https://snapshot.org/#/aave.eth/0xabc1",
   "https://snapshot.org/#/aave.eth/proposal",
   "https://testnet.snapshot.box/#/s-tn:x/proposal/0x1",
   "https://testnet.snapshot.box/#/s-tn:x/0x1",
   "https://testnet.snapshot.box/#/s-tn:x",
   "https://snapshot.org/#/",
   "",
   "not a url",
   "https://example.com/page?x=1",
   "https://",
   "?proposalId=",
   "https://app.aave.com/governance/",
   "http://[bad",
   "https://app.aave.com/governance/0",
   "https://app.aave.com/governance/?proposalId=0"}

\* the characters of each input and of each literal of the classifier
UrlChars ==
  ("https://app.aave.com/governance/0" :>
     <<"h", "t", "t", "p", "s", ":", "/", "/", "a", "p", "p", ".", "a", "a", "v", "e", ".", "c", "o", "m", "/", "g", "o", "v", "e", "r", "n", "a", "n", "c", "e", "/", "0">>) @@
  ("https://app.aave.com/governance/?proposalId=0" :>
     <<"h", "t", "t", "p", "s", ":", "/", "/", "a", "p", "p", ".", "a", "a", "v", "e", ".", "c", "o", "m", "/", "g", "o", "v", "e", "r", "n", "a", "n", "c", "e", "/", "?", "p", "r", "o", "p", "o", "s", "a", "l", "I", "d", "=", "0">>) @@
  ("https://vote.onaave.com/proposal/?proposalId=420" :>
     <<"h", "t", "t", "p", "s", ":", "/", "/", "v", "o", "t", "e", ".", "o", "n", "a", "a", "v", "e", ".", "c", "o", "m", "/", "p", "r", "o", "p", "o", "s", "a", "l", "/", "?", "p", "r", "o", "p", "o", "s", "a", "l", "I", "d", "=", "4", "2", "0">>) @@
  ("https://app.aave.com/governance/v3/proposal/?proposalId=420" :>
     <<"h", "t", "t", "p", "s", ":", "/", "/", "a", "p", "p", ".", "a", "a", "v", "e", ".", "c", "o", "m", "/", "g", "o", "v", "e", "r", "n", "a", "n", "c", "e", "/", "v", "3", "/", "p", "r", "o", "p", "o", "s", "a", "l", "/", "?", "p", "r", "o", "p", "o", "s", "a", "l", "I", "d", "=", "4", "2", "0">>) @@
  ("vote.onaave.com/proposal/?proposalId=7" :>
     <<"v", "o", "t", "e", ".", "o", "n", "a", "a", "v", "e", ".", "c", "o", "m", "/", "p", "r", "o", "p", "o", "s", "a", "l", "/", "?", "p", "r", "o", "p", "o", "s", "a", "l", "I", "d", "=", "7">>) @@
  ("https://governance.aave.com/t/some-slug/123" :>
     <<"h", "t", "t", "p", "s", ":", "/", "/", "g", "o", "v", "e", "r", "n", "a", "n", "c", "e", ".", "a", "a", "v", "e", ".", "c", "o", "m", "/", "t", "/", "s", "o", "m", "e", "-", "s", "l", "u", "g", "/", "1", "2", "3">>) @@
  ("https://app.aave.com/governance/proposal/12" :>
     <<"h", "t", "t", "p", "s", ":", "/", "/", "a", "p", "p", ".", "a", "a", "v", "e", ".", "c", "o", "m", "/", "g", "o", "v", "e", "r", "n", "a", "n", "c", "e", "/", "p", "r", "o", "p", "o", "s", "a", "l", "/", "1", "2">>) @@
  ("https://governance.aave.com/aip/9" :>
     <<"h", "t", "t", "p", "s", ":", "/", "/", "g", "o", "v", "e", "r", "n", "a", "n", "c", "e", ".", "a", "a", "v", "e", ".", "c", "o", "m", "/", "a", "i", "p", "/", "9">>) @@
  ("https://governance.aave.com/?proposalId=5" :>
     <<"h", "t", "t", "p", "s", ":", "/", "/", "g", "o", "v", "e", "r", "n", "a", "n", "c", "e", ".", "a", "a", "v", "e", ".", "c", "o", "m", "/", "?", "p", "r", "o", "p", "o", "s", "a", "l", "I", "d", "=", "5">>) @@
  ("https://vote.onaave.com/proposal/?proposalId=0" :>
     <<"h", "t", "t", "p", "s", ":", "/", "/", "v", "o", "t", "e", ".", "o", "n", "a", "a", "v", "e", ".", "c", "o", "m", "/", "p", "r", "o", "p", "o", "s", "a", "l", "/", "?", "p", "r", "o", "p", "o", "s", "a", "l", "I", "d", "=", "0">>) @@
  ("https://app.aave.com/governance/v3/proposal/?proposalId=007&ipfsHash=x" :>
     <<"h", "t", "t", "p", "s", ":", "/", "/", "a", "p", "p", ".", "a", "a", "v", "e", ".", "c", "o", "m", "/", "g", "o", "v", "e", "r", "n", "a", "n", "c", "e", "/", "v", "3", "/", "p", "r", "o", "p", "o", "s", "a", "l", "/", "?", "p", "r", "o", "p", "o", "s", "a", "l", "I", "d", "=", "0", "0", "7", "&", "i", "p", "f", "s", "H", "a", "s", "h", "=", "x">>) @@
  ("https://snapshot.org/#/aave.eth/proposal/0xabc1" :>
     <<"h", "t", "t", "p", "s", ":", "/", "/", "s", "n", "a", "p", "s", "h", "o", "t", ".", "o", "r", "g", "/", "#", "/", "a", "a", "v", "e", ".", "e", "t", "h", "/", "p", "r", "o", "p", "o", "s", "a", "l", "/", "0", "x", "a", "b", "c", "1">>) @@
  ("https://snapshot.org/#/aave.eth/0xabc1" :>
     <<"h", "t", "t", "p", "s", ":", "/", "/", "s", "n", "a", "p", "s", "h", "o", "t", ".", "o", "r", "g", "/", "#", "/", "a", "a", "v", "e", ".", "e", "t", "h", "/", "0", "x", "a", "b", "c", "1">>) @@
  ("https://snapshot.org/#/aave.eth/proposal" :>
     <<"h", "t", "t", "p", "s", ":", "/", "/", "s", "n", "a", "p", "s", "h", "o", "t", ".", "o", "r", "g", "/", "#", "/", "a", "a", "v", "e", ".", "e", "t", "h", "/", "p", "r", "o", "p", "o", "s", "a", "l">>) @@
  ("https://testnet.snapshot.box/#/s-tn:x/proposal/0x1" :>
     <<"h", "t", "t", "p", "s", ":", "/", "/", "t", "e", "s", "t", "n", "e", "t", ".", "s", "n", "a", "p", "s", "h", "o", "t", ".", "b", "o", "x", "/", "#", "/", "s", "-", "t", "n", ":", "x", "/", "p", "r", "o", "p", "o", "s", "a", "l", "/", "0", "x", "1">>) @@
  ("https://testnet.snapshot.box/#/s-tn:x/0x1" :>
     <<"h", "t", "t", "p", "s", ":", "/", "/", "t", "e", "s", "t", "n", "e", "t", ".", "s", "n", "a", "p", "s", "h", "o", "t", ".", "b", "o", "x", "/", "#", "/", "s", "-", "t", "n", ":", "x", "/", "0", "x", "1">>) @@
  ("https://testnet.snapshot.box/#/s-tn:x" :>
     <<"h", "t", "t", "p", "s", ":", "/", "/", "t", "e", "s", "t", "n", "e", "t", ".", "s", "n", "a", "p", "s", "h", "o", "t", ".", "b", "o", "x", "/", "#", "/", "s", "-", "t", "n", ":", "x">>) @@
  ("https://snapshot.org/#/" :>
     <<"h", "t", "t", "p", "s", ":", "/", "/", "s", "n", "a", "p", "s", "h", "o", "t", ".", "o", "r", "g", "/", "#", "/">>) @@
  ("" :>
     <<>>) @@
  ("not a url" :>
     <<"n", "o", "t", " ", "a", " ", "u", "r", "l">>) @@
  ("https://example.com/page?x=1" :>
     <<"h", "t", "t", "p", "s", ":", "/", "/", "e", "x", "a", "m", "p", "l", "e", ".", "c", "o", "m", "/", "p", "a", "g", "e", "?", "x", "=", "1">>) @@
  ("https://" :>
     <<"h", "t", "t", "p", "s", ":", "/", "/">>) @@
  ("?proposalId=" :>
     <<"?", "p", "r", "o", "p", "o", "s", "a", "l", "I", "d", "=">>) @@
  ("https://app.aave.com/governance/" :>
     <<"h", "t", "t", "p", "s", ":", "/", "/", "a", "p", "p", ".", "a", "a", "v", "e", ".", "c", "o", "m", "/", "g", "o", "v", "e", "r", "n", "a", "n", "c", "e", "/">>) @@
  ("http://[bad" :>
     <<"h", "t", "t", "p", ":", "/", "/", "[", "b", "a", "d">>) @@
  ("testnet.snapshot.box" :>
     <<"t", "e", "s", "t", "n", "e", "t", ".", "s", "n", "a", "p", "s", "h", "o", "t", ".", "b", "o", "x">>) @@
  ("snapshot.org" :>
     <<"s", "n", "a", "p", "s", "h", "o", "t", ".", "o", "r", "g">>) @@
  ("/#/" :>
     <<"/", "#", "/">>) @@
  ("/proposal/" :>
     <<"/", "p", "r", "o", "p", "o", "s", "a", "l", "/">>) @@
  ("/" :>
     <<"/">>) @@
  ("proposal" :>
     <<"p", "r", "o", "p", "o", "s", "a", "l">>) @@
  ("proposalId" :>
     <<"p", "r", "o", "p", "o", "s", "a", "l", "I", "d">>) @@
  ("=" :>
     <<"=">>) @@
  ("vote.onaave.com" :>
     <<"v", "o", "t", "e", ".", "o", "n", "a", "a", "v", "e", ".", "c", "o", "m">>) @@
  ("app.aave.com" :>
     <<"a", "p", "p", ".", "a", "a", "v", "e", ".", "c", "o", "m">>) @@
  ("vote.onaave.com/proposal/?" :>
     <<"v", "o", "t", "e", ".", "o", "n", "a", "a", "v", "e", ".", "c", "o", "m", "/", "p", "r", "o", "p", "o", "s", "a", "l", "/", "?">>) @@
  ("proposalid=" :>
     <<"p", "r", "o", "p", "o", "s", "a", "l", "i", "d", "=">>) @@
  ("app.aave.com/governance/v3/proposal/?" :>
     <<"a", "p", "p", ".", "a", "a", "v", "e", ".", "c", "o", "m", "/", "g", "o", "v", "e", "r", "n", "a", "n", "c", "e", "/", "v", "3", "/", "p", "r", "o", "p", "o", "s", "a", "l", "/", "?">>) @@
  ("governance.aave.com/t/" :>
     <<"g", "o", "v", "e", "r", "n", "a", "n", "c", "e", ".", "a", "a", "v", "e", ".", "c", "o", "m", "/", "t", "/">>) @@
  ("app.aave.com/governance/" :>
     <<"a", "p", "p", ".", "a", "a", "v", "e", ".", "c", "o", "m", "/", "g", "o", "v", "e", "r", "n", "a", "n", "c", "e", "/">>) @@
  ("proposal/" :>
     <<"p", "r", "o", "p", "o", "s", "a", "l", "/">>) @@
  ("governance.aave.com/aip/" :>
     <<"g", "o", "v", "e", "r", "n", "a", "n", "c", "e", ".", "a", "a", "v", "e", ".", "c", "o", "m", "/", "a", "i", "p", "/">>) @@
  ("http://" :>
     <<"h", "t", "t", "p", ":", "/", "/">>)

\* a JavaScript value handed to the classifier: a string, or a value that
\* is not a string
StringValue(text) == [type |-> "string", text |-> text]
NonStrings == {[type |-> "null", text |-> ""],
               [type |-> "undefined", text |-> ""],
               [type |-> "number", text |-> ""]}
ClassifierInputs == {StringValue(t) : t \in UrlTexts} \cup NonStrings

\* !url
Falsy(url) ==
  \/ url.type \in {"null", "undefined"}
  \/ url.type = "string" /\ UrlChars[url.text] = <<>>

DigitChars == <<"0", "1", "2", "3", "4", "5", "6", "7", "8", "9">>
Digit == Range(DigitChars)
isDigit(c) == c \in Digit
DigitValue(c) == (CHOOSE i \in 1..Len(DigitChars) : DigitChars[i] = c) - 1

\* [a-zA-Z0-9]
Alnum == Range(UpperLetters) \cup Range(LowerLetters) \cup Digit

Least(S) == CHOOSE x \in S : \A y \in S : x <= y
Greatest(S) == CHOOSE x \in S : \A y \in S : x >= y

\* sub occurs in s at index i (1-based)
startsAt(s, sub, i) ==
  /\ i >= 1
  /\ i + Len(sub) - 1 <= Len(s)
  /\ SubSeq(s, i, i + Len(sub) - 1) = sub

\* the length of the longest run of characters of a class that starts at i:
\* what a greedy [class]+ consumes
RunWhile(s, i, class) ==
  LET stops == {j \in i..Len(s) : s[j] \notin class}
  IN IF i > Len(s) THEN 0
     ELSE IF stops = {} THEN Len(s) - i + 1 ELSE Least(stops) - i

\* the same for a negated class [^stops]+
RunUntil(s, i, stops) ==
  LET ends == {j \in i..Len(s) : s[j] \in stops}
  IN IF i > Len(s) THEN 0
     ELSE IF ends = {} THEN Len(s) - i + 1 ELSE Least(ends) - i

\* parseInt(digits, 10) of a run of digits, and Number.prototype.toString
RECURSIVE DigitsToNat(_)
DigitsToNat(ds) ==
  IF ds = <<>> THEN 0
  ELSE 10 * DigitsToNat(SubSeq(ds, 1, Len(ds) - 1)) + DigitValue(ds[Len(ds)])

RECURSIVE NatToDigits(_)
NatToDigits(n) ==
  IF n < 10 THEN <<DigitChars[n + 1]>>
  ELSE NatToDigits(n \div 10) \o <<DigitChars[(n % 10) + 1]>>

\* what the classifier returns: null (found = FALSE) or an object
NoInfo == [found |-> FALSE, type |-> "", space |-> <<>>, proposalId |-> <<>>,
           isTestnet |-> FALSE, urlSource |-> ""]
Returns(info) == [threw |-> FALSE, info |-> info]
Throws == [threw |-> TRUE, info |-> NoInfo]

CaughtRethrows(r) == r

\* catch (e) { console.warn(...); return null; }
Caught(r) == IF r.threw THEN Returns(NoInfo) ELSE r

\* url.match(/<host>\/#\/([^\/]+)<sep>([a-zA-Z0-9]+)/i): the leftmost match;
\* sep is \/proposal\/ or \/
SnapshotMatch(s, host, sep) ==
  LET l == toLowerCase(s)
      prefix == host \o UrlChars["/#/"]
      g1(i) == i + Len(prefix)
      n1(i) == RunUntil(s, g1(i), {"/"})
      g2(i) == g1(i) + n1(i) + Len(sep)
      n2(i) == RunWhile(s, g2(i), Alnum)
      ms == {i \in 1..Len(s) :
               /\ startsAt(l, prefix, i)
               /\ n1(i) > 0
               /\ startsAt(l, sep, g1(i) + n1(i))
               /\ n2(i) > 0}
  IN IF ms = {} THEN [matched |-> FALSE, space |-> <<>>, proposalId |-> <<>>]
     ELSE LET i == Least(ms)
          IN [matched |-> TRUE,
              space |-> SubSeq(s, g1(i), g1(i) + n1(i) - 1),
              proposalId |-> SubSeq(s, g2(i), g2(i) + n2(i) - 1)]

SnapshotInfo(m, testnet) ==
  [found |-> TRUE, type |-> "snapshot", space |-> m.space,
   proposalId |-> m.proposalId, isTestnet |-> testnet, urlSource |-> ""]

\* the try block of extractSnapshotProposalInfo; url.includes is a TypeError
\* when url is not a string
SnapshotBody(url) ==
  IF url.type # "string" THEN Throws
  ELSE
    LET s == UrlChars[url.text]
        isTestnetUrl == includes(s, UrlChars["testnet.snapshot.box"])
        testnetProposalMatch ==
          SnapshotMatch(s, UrlChars["testnet.snapshot.box"], UrlChars["/proposal/"])
        testnetDirectMatch ==
          SnapshotMatch(s, UrlChars["testnet.snapshot.box"], UrlChars["/"])
        proposalMatch ==
          SnapshotMatch(s, UrlChars["snapshot.org"], UrlChars["/proposal/"])
        directMatch == SnapshotMatch(s, UrlChars["snapshot.org"], UrlChars["/"])
        notProposal(m) == toLowerCase(m.proposalId) # UrlChars["proposal"]
    IN IF isTestnetUrl /\ testnetProposalMatch.matched
       THEN Returns(SnapshotInfo(testnetProposalMatch, TRUE))
       ELSE IF isTestnetUrl /\ testnetDirectMatch.matched
                            /\ notProposal(testnetDirectMatch)
       THEN Returns(SnapshotInfo(testnetDirectMatch, TRUE))
       ELSE IF proposalMatch.matched
       THEN Returns(SnapshotInfo(proposalMatch, FALSE))
       ELSE IF directMatch.matched /\ notProposal(directMatch)
       THEN Returns(SnapshotInfo(directMatch, FALSE))
       ELSE Returns(NoInfo)

extractSnapshotProposalInfo(url) == Caught(SnapshotBody(url))

\* new URL(url) succeeds: the text is an absolute http(s) URL with a host
UrlParses(s) ==
  LET l == toLowerCase(s)
      hostAt == IF startsAt(l, UrlChars["https://"], 1) THEN 9
                ELSE IF startsAt(l, UrlChars["http://"], 1) THEN 8 ELSE 0
  IN /\ hostAt > 0
     /\ hostAt <= Len(s)
     /\ s[hostAt] \notin {"/", "?", "#", "["}

\* the query of the URL: between the first ? and the fragment
QueryOf(s) ==
  LET hashes == {i \in 1..Len(s) : s[i] = "#"}
      beforeHash == IF hashes = {} THEN s ELSE SubSeq(s, 1, Least(hashes) - 1)
      marks == {i \in 1..Len(beforeHash) : beforeHash[i] = "?"}
  IN IF marks = {} THEN <<>>
     ELSE SubSeq(beforeHash, Least(marks) + 1, Len(beforeHash))

\* urlObj.searchParams.get(name): the value of the first parameter of that
\* name, null (found = FALSE) when there is none
SearchParamsGet(query, name) ==
  LET key == name \o UrlChars["="]
      starts == {p \in 1..Len(query) :
                   /\ p = 1 \/ query[p - 1] = "&"
                   /\ startsAt(query, key, p)}
  IN IF starts = {} THEN [found |-> FALSE, value |-> <<>>]
     ELSE LET v == Least(starts) + Len(key)
          IN [found |-> TRUE,
              value |-> SubSeq(query, v, v + RunUntil(query, v, {"&"}) - 1)]

\* parseInt(text, 10): the leading digits, NaN (isNaN = TRUE) without any
parseInt(text) ==
  LET n == RunWhile(text, 1, Digit)
  IN IF n = 0 THEN [isNaN |-> TRUE, value |-> 0]
     ELSE [isNaN |-> FALSE, value |-> DigitsToNat(SubSeq(text, 1, n))]

AipInfo(proposalId, urlSource) ==
  [found |-> TRUE, type |-> "aip", space |-> <<>>, proposalId |-> proposalId,
   isTestnet |-> FALSE, urlSource |-> urlSource]

\* Step 1 of extractAIPProposalInfo: the proposalId query parameter.  Every
\* exception of this step is swallowed by the inner catch.
AipFromQuery(url) ==
  IF url.type # "string" \/ ~UrlParses(UrlChars[url.text]) THEN NoInfo
  ELSE
    LET s == UrlChars[url.text]
        queryParam == SearchParamsGet(QueryOf(s), UrlChars["proposalId"])
        numericId == parseInt(queryParam.value)
    IN IF queryParam.found /\ queryParam.value # <<>>
          /\ ~numericId.isNaN /\ numericId.value > 0
       THEN AipInfo(NatToDigits(numericId.value),
                    IF includes(s, UrlChars["vote.onaave.com"])
                    THEN "vote.onaave.com" ELSE "app.aave.com")
       ELSE NoInfo

\* url.match(/<prefix>.*proposalId=(\d+)/i): the leftmost prefix, then the
\* last proposalId= that is followed by a digit
QueryIdMatch(s, prefix) ==
  LET l == toLowerCase(s)
      key == UrlChars["proposalid="]
      after(i) == {j \in (i + Len(prefix))..Len(s) :
                     /\ startsAt(l, key, j)
                     /\ RunWhile(s, j + Len(key), Digit) > 0}
      ms == {i \in 1..Len(s) : startsAt(l, prefix, i) /\ after(i) # {}}
  IN IF ms = {} THEN [matched |-> FALSE, id |-> <<>>]
     ELSE LET d == Greatest(after(Least(ms))) + Len(key)
          IN [matched |-> TRUE,
              id |-> SubSeq(s, d, d + RunWhile(s, d, Digit) - 1)]

\* url.match(/<prefix>[^\/]+\/(\d+)/i)
SlugIdMatch(s, prefix) ==
  LET l == toLowerCase(s)
      g(i) == i + Len(prefix)
      n(i) == RunUntil(s, g(i), {"/"})
      d(i) == g(i) + n(i) + 1
      ms == {i \in 1..Len(s) :
               /\ startsAt(l, prefix, i)
               /\ n(i) > 0
               /\ startsAt(s, UrlChars["/"], g(i) + n(i))
               /\ RunWhile(s, d(i), Digit) > 0}
  IN IF ms = {} THEN [matched |-> FALSE, id |-> <<>>]
     ELSE LET i == Least(ms)
          IN [matched |-> TRUE,
              id |-> SubSeq(s, d(i), d(i) + RunWhile(s, d(i), Digit) - 1)]

\* url.match(/<prefix>(?:<optional>)?(\d+)/i)
PathIdMatch(s, prefix, optional) ==
  LET l == toLowerCase(s)
      d(i) == IF startsAt(l, optional, i + Len(prefix))
                 /\ RunWhile(s, i + Len(prefix) + Len(optional), Digit) > 0
              THEN i + Len(prefix) + Len(optional)
              ELSE i + Len(prefix)
      ms == {i \in 1..Len(s) :
               startsAt(l, prefix, i) /\ RunWhile(s, d(i), Digit) > 0}
  IN IF ms = {} THEN [matched |-> FALSE, id |-> <<>>]
     ELSE LET i == Least(ms)
          IN [matched |-> TRUE,
              id |-> SubSeq(s, d(i), d(i) + RunWhile(s, d(i), Digit) - 1)]

\* the outer try block of extractAIPProposalInfo; url.match is a TypeError
\* when url is not a string
AipBody(url) ==
  LET fromQuery == AipFromQuery(url) IN
  IF fromQuery.found THEN Returns(fromQuery)
  ELSE IF url.type # "string" THEN Throws
  ELSE
    LET s == UrlChars[url.text]
        voteMatch == QueryIdMatch(s, UrlChars["vote.onaave.com/proposal/?"])
        appV3Match ==
          QueryIdMatch(s, UrlChars["app.aave.com/governance/v3/proposal/?"])
        forumMatch == SlugIdMatch(s, UrlChars["governance.aave.com/t/"])
        appMatch == PathIdMatch(s, UrlChars["app.aave.com/governance/"],
                                UrlChars["proposal/"])
        aipMatch == PathIdMatch(s, UrlChars["governance.aave.com/aip/"], <<>>)
    IN IF voteMatch.matched
       THEN Returns(AipInfo(voteMatch.id, "vote.onaave.com"))
       ELSE IF appV3Match.matched
       THEN Returns(AipInfo(appV3Match.id, "app.aave.com"))
       ELSE IF forumMatch.matched
       THEN Returns(AipInfo(forumMatch.id, "app.aave.com"))
       ELSE IF appMatch.matched
       THEN Returns(AipInfo(appMatch.id, "app.aave.com"))
       ELSE IF aipMatch.matched
       THEN Returns(AipInfo(aipMatch.id, "app.aave.com"))
       ELSE Returns(NoInfo)

extractAIPProposalInfo(url) == Caught(AipBody(url))

\* extractProposalInfo: Snapshot first, then AIP
extractProposalInfo(url) ==
  IF Falsy(url) THEN Returns(NoInfo)
  ELSE LET snapshotInfo == extractSnapshotProposalInfo(url)
           aipInfo == extractAIPProposalInfo(url)
       IN IF snapshotInfo.threw \/ snapshotInfo.info.found THEN snapshotInfo
          ELSE aipInfo

\* getStateMapping(urlSource): the status name of state 0..7
getStateMapping(urlSource) ==
  IF urlSource = "vote.onaave.com"
  THEN <<"created", "voting", "passed", "failed", "executed", "expired",
         "cancelled", "active">>
  ELSE <<"null", "created", "active", "queued", "executed", "failed",
         "cancelled", "expired">>

\* stateMap[proposalState] || 'unknown'
StateName(stateMap, proposalState) ==
  IF proposalState \in 0..(Len(stateMap) - 1)
  THEN stateMap[proposalState + 1] ELSE "unknown"

\* what getProposalState answers, and the state field of getProposal's answer
OnChainStates == 0..8
UndefinedState == [defined |-> FALSE, value |-> 0]
ProposalStateFields == {UndefinedState} \cup
                       {[defined |-> TRUE, value |-> v] : v \in {2, 3}}

\* the status of transformAIPDataFromOnChain(proposal, state, proposalId,
\* urlSource)
transformAIPStatus(proposalStateField, state, urlSource) ==
  LET stateMap == getStateMapping(urlSource)
      proposalState == IF state # 0 THEN state
                       ELSE IF proposalStateField.defined
                            THEN proposalStateField.value ELSE 0
  IN StateName(stateMap, proposalState)

\* the arguments fetchProposalDataByType passes to fetchAIPProposalLocal
AipLocalArgs(info, cacheKey) ==
  <<info.proposalId, cacheKey, "mainnet",
    IF info.urlSource # "" THEN info.urlSource ELSE "app.aave.com">>

\* the parameter urlSource of fetchAIPProposalLocal(proposalId, cacheKey,
\* urlSource = 'app.aave.com') for the arguments of a call
LocalUrlSource(args) == IF Len(args) >= 3 THEN args[3] ELSE "app.aave.com"

\* fetchAIPFromOnChain: the numeric proposal id of topicId
OnChainProposalId(topicId) ==
  LET digitAt == {i \in 1..Len(topicId) : isDigit(topicId[i])}
  IN IF digitAt = {} THEN [isNaN |-> TRUE, value |-> 0]
     ELSE parseInt(SubSeq(topicId, Least(digitAt), Len(topicId)))

\* urlCall: the last call of a classifier function or of the AIP resolver on
\* its on-chain path, with what it gave
VARIABLES urlCall

UrlIdle == [op |-> "none", url |-> StringValue(""), threw |-> FALSE,
            info |-> NoInfo, state |-> 0, proposalState |-> UndefinedState,
            urlSource |-> "", status |-> "", isNull |-> FALSE]

ClassifierCall(op, url, r) ==
  [UrlIdle EXCEPT !.op = op, !.url = url, !.threw = r.threw, !.info = r.info,
                  !.isNull = ~r.threw /\ ~r.info.found]

CallExtractSnapshotProposalInfo(url) ==
  /\ urlCall.op = "none"
  /\ urlCall' = ClassifierCall("extractSnapshotProposalInfo", url,
                               extractSnapshotProposalInfo(url))

CallExtractAIPProposalInfo(url) ==
  /\ urlCall.op = "none"
  /\ urlCall' = ClassifierCall("extractAIPProposalInfo", url,
                               extractAIPProposalInfo(url))

CallExtractProposalInfo(url) ==
  /\ urlCall.op = "none"
  /\ urlCall' = ClassifierCall("extractProposalInfo", url,
                               extractProposalInfo(url))

\* fetchProposalDataByType(url, 'aip') when the subgraph has nothing and the
\* chain answers getProposalState with state
CallFetchAipOnChain(text, state, proposalStateField) ==
  /\ urlCall.op = "none"
  /\ LET url == StringValue(text)
         r == extractAIPProposalInfo(url)
         urlSource == LocalUrlSource(AipLocalArgs(r.info, text))
         id == OnChainProposalId(r.info.proposalId)
         base == [ClassifierCall("fetchAipOnChain", url, r) EXCEPT
                    !.state = state, !.proposalState = proposalStateField]
     IN urlCall' =
          IF ~r.info.found \/ id.isNaN \/ id.value <= 0
          THEN [base EXCEPT !.isNull = TRUE]
          ELSE [base EXCEPT
                  !.urlSource = urlSource,
                  !.status = transformAIPStatus(proposalStateField, state,
                                                urlSource)]

(***************************************************************************)
(* fetchAIPFromSubgraph: the votes of the indexed proposal, from wei to    *)
(* AAVE                                                                    *)
(***************************************************************************)
\* the raw vote values of the subgraph: decimal texts
VoteTexts ==
  {"0",
   "5000000000000000000",
   "5999999999999999999",
   "999999999999999999",
   "1000000000000000000",
   "12345678901234567890123",
   "1999999999999999999"}

VoteChars ==
  ("0" :>
     <<"0">>) @@
  ("5000000000000000000" :>
     <<"5", "0", "0", "0", "0", "0", "0", "0", "0", "0", "0", "0", "0", "0", "0", "0", "0", "0", "0">>) @@
  ("5999999999999999999" :>
     <<"5", "9", "9", "9", "9", "9", "9", "9", "9", "9", "9", "9", "9", "9", "9", "9", "9", "9", "9">>) @@
  ("999999999999999999" :>
     <<"9", "9", "9", "9", "9", "9", "9", "9", "9", "9", "9", "9", "9", "9", "9", "9", "9", "9">>) @@
  ("1000000000000000000" :>
     <<"1", "0", "0", "0", "0", "0", "0", "0", "0", "0", "0", "0", "0", "0", "0", "0", "0", "0", "0">>) @@
  ("12345678901234567890123" :>
     <<"1", "2", "3", "4", "5", "6", "7", "8", "9", "0", "1", "2", "3", "4", "5", "6", "7", "8", "9", "0", "1", "2", "3">>) @@
  ("1999999999999999999" :>
     <<"1", "9", "9", "9", "9", "9", "9", "9", "9", "9", "9", "9", "9", "9", "9", "9", "9", "9", "9">>)

\* a field of the answer: absent (null or missing), or a text
AbsentRaw == [defined |-> FALSE, text |-> "0"]
RawValues == {AbsentRaw} \cup {[defined |-> TRUE, text |-> t] : t \in VoteTexts}

\* p.votes: null, missing, an empty list, an object, or a list of one object
NoVotes(kind) == [kind |-> kind, forVotes |-> AbsentRaw, againstVotes |-> AbsentRaw]
VotesInputs ==
  {NoVotes(k) : k \in {"null", "undefined", "emptyList"}} \cup
  [kind : {"object", "list"}, forVotes : RawValues, againstVotes : RawValues]

\* if (p.votes): null and undefined are falsy, every object and every array
\* is truthy
VotesTruthy(votes) == votes.kind \notin {"null", "undefined"}

\* votesData?.forVotes with votesData = p.votes[0] || p.votes for an array
VotesDataField(votes, field) ==
  IF votes.kind \in {"object", "list"} THEN votes[field] ELSE AbsentRaw

\* a text is truthy unless it is empty
RawTruthy(raw) == raw.defined /\ VoteChars[raw.text] # <<>>

\* BigInt(String(raw)): the digits of the integer, without leading zeros
RECURSIVE StripLeadingZeros(_)
StripLeadingZeros(ds) ==
  IF Len(ds) > 1 /\ Head(ds) = "0" THEN StripLeadingZeros(Tail(ds)) ELSE ds

BigIntOf(text) == StripLeadingZeros(VoteChars[text])

\* decimals = BigInt(10 ** 18)
Decimals == 18

DivDecimalsRounded(big) ==
  IF Len(big) < Decimals THEN <<"0">>
  ELSE LET q == IF Len(big) = Decimals THEN 0
                ELSE DigitsToNat(SubSeq(big, 1, Len(big) - Decimals))
           up == DigitValue(big[Len(big) - Decimals + 1]) >= 5
       IN NatToDigits(IF up THEN q + 1 ELSE q)

\* (big / decimals).toString(): BigInt division truncates
DivDecimals(big) ==
  IF Len(big) <= Decimals THEN <<"0">>
  ELSE SubSeq(big, 1, Len(big) - Decimals)

NullVotes == [isNull |-> TRUE, digits |-> <<>>]

\* lines 409-454 for p.votes = votes and the top-level fields p.forVotes and
\* p.againstVotes
ConvertVotes(votes, pForVotes, pAgainstVotes) ==
  LET votesAvailable == VotesTruthy(votes)
      firstTruthy(a, b) == IF RawTruthy(a) THEN a
                           ELSE IF RawTruthy(b) THEN b ELSE AbsentRaw
      forVotesRaw == firstTruthy(VotesDataField(votes, "forVotes"), pForVotes)
      againstVotesRaw ==
        firstTruthy(VotesDataField(votes, "againstVotes"), pAgainstVotes)
      convert(raw) ==
        IF RawTruthy(raw)
        THEN [isNull |-> FALSE, digits |-> DivDecimals(BigIntOf(raw.text))]
        ELSE IF votesAvailable
             THEN [isNull |-> FALSE, digits |-> DivDecimals(<<"0">>)]
             ELSE NullVotes
  IN [forVotes |-> convert(forVotesRaw),
      againstVotes |-> convert(againstVotesRaw)]

\* voteCall: the last conversion, with its input
VARIABLES voteCall

VoteIdle == [op |-> "none", votes |-> NoVotes("null"),
             forVotes |-> NullVotes, againstVotes |-> NullVotes]

\* fetchAIPFromSubgraph on a proposal whose votes field is votes; the query
\* asks for no top-level forVotes or againstVotes
CallConvertVotes(votes) ==
  /\ voteCall.op = "none"
  /\ LET r == ConvertVotes(votes, AbsentRaw, AbsentRaw)
     IN voteCall' = [op |-> "fetchAIPFromSubgraph", votes |-> votes,
                     forVotes |-> r.forVotes, againstVotes |-> r.againstVotes]

(***************************************************************************)
(* transformSnapshotData: the vote counts and percentages of a Snapshot    *)
(* proposal                                                                *)
(***************************************************************************)
\* the characters of the choice texts and of the literals they are tested for
ChoiceChars ==
  ("For" :> <<"F", "o", "r">>) @@
  ("Against" :> <<"A", "g", "a", "i", "n", "s", "t">>) @@
  ("Abstain" :> <<"A", "b", "s", "t", "a", "i", "n">>) @@
  ("YAE" :> <<"Y", "A", "E">>) @@
  ("NAY" :> <<"N", "A", "Y">>) @@
  ("Yes" :> <<"Y", "e", "s">>) @@
  ("No" :> <<"N", "o">>) @@
  ("Option A" :> <<"O", "p", "t", "i", "o", "n", " ", "A">>) @@
  ("Option B" :> <<"O", "p", "t", "i", "o", "n", " ", "B">>) @@
  ("for" :> <<"f", "o", "r">>) @@
  ("yes" :> <<"y", "e", "s">>) @@
  ("yae" :> <<"y", "a", "e">>) @@
  ("against" :> <<"a", "g", "a", "i", "n", "s", "t">>) @@
  ("no" :> <<"n", "o">>) @@
  ("nay" :> <<"n", "a", "y">>) @@
  ("abstain" :> <<"a", "b", "s", "t", "a", "i", "n">>)

\* proposal.choices, proposal.scores and proposal.scores_total of the answer
ChoiceLists == {<<"For", "Against", "Abstain">>, <<"YAE", "NAY">>,
                <<"Yes", "No">>, <<"Option A", "Option B">>, <<>>}
ScoreValues == {0, 10, 30}
ScoreLists(choices) ==
  SeqOfLen(ScoreValues, IF choices = <<>> THEN 2 ELSE Len(choices))
ScoresTotals == {0, 40, 70}

\* choices.findIndex(c => ...): the index (from 0) of the first choice whose
\* lower-case text includes one of the words, -1 when there is none
ChoiceIndex(choices, words) ==
  LET hit(i) == \E w \in words :
                  includes(toLowerCase(ChoiceChars[choices[i]]), ChoiceChars[w])
      hits == {i \in 1..Len(choices) : hit(i)}
  IN IF hits = {} THEN -1 ELSE Least(hits) - 1

\* scores.reduce((sum, score) => sum + (Number(score) || 0), 0)
RECURSIVE SumScores(_)
SumScores(scores) ==
  IF scores = <<>> THEN 0 ELSE Head(scores) + SumScores(Tail(scores))

SnapshotTotalCounted(scoresTotal, calculatedTotal) == calculatedTotal

\* const totalVotes = scoresTotal > 0 ? scoresTotal : calculatedTotal
SnapshotTotal(scoresTotal, calculatedTotal) ==
  IF scoresTotal > 0 THEN scoresTotal ELSE calculatedTotal

\* totalVotes > 0 ? (count / totalVotes) * 100 : 0, as the fraction num / den
Percent(count, totalVotes) ==
  IF totalVotes > 0 THEN [num |-> count * 100, den |-> totalVotes]
  ELSE [num |-> 0, den |-> 1]

\* voteStats of transformSnapshotData(proposal, space)
SnapshotVoteStats(choices, scores, scoresTotal) ==
  LET forIndex == ChoiceIndex(choices, {"for", "yes", "yae"})
      againstIndex == ChoiceIndex(choices, {"against", "no", "nay"})
      abstainIndex == ChoiceIndex(choices, {"abstain"})
      named == Len(choices) > 0 /\ Len(scores) > 0
      firstTwo == Len(scores) >= 2 /\
                  (~named \/ (forIndex < 0 /\ againstIndex < 0))
      at(index) == IF named /\ index >= 0 /\ index < Len(scores)
                   THEN scores[index + 1] ELSE 0
      forVotes == IF firstTwo THEN scores[1] ELSE at(forIndex)
      againstVotes == IF firstTwo THEN scores[2] ELSE at(againstIndex)
      abstainVotes == at(abstainIndex)
      totalVotes == SnapshotTotal(scoresTotal, SumScores(scores))
  IN [for |-> [count |-> forVotes, percent |-> Percent(forVotes, totalVotes)],
      against |-> [count |-> againstVotes,
                   percent |-> Percent(againstVotes, totalVotes)],
      abstain |-> [count |-> abstainVotes,
                   percent |-> Percent(abstainVotes, totalVotes)],
      total |-> totalVotes]

\* snapCall: the last transformSnapshotData, with its input
VARIABLES snapCall

SnapIdle == [op |-> "none", choices |-> <<>>, scores |-> <<>>,
             scoresTotal |-> 0, voteStats |-> SnapshotVoteStats(<<>>, <<>>, 0)]

CallTransformSnapshotData(choices, scores, scoresTotal) ==
  /\ snapCall.op = "none"
  /\ snapCall' = [op |-> "transformSnapshotData", choices |-> choices,
                  scores |-> scores, scoresTotal |-> scoresTotal,
                  voteStats |-> SnapshotVoteStats(choices, scores, scoresTotal)]

(***************************************************************************)
(* ensureEthersLoaded and the head of fetchAIPFromOnChain                  *)
(***************************************************************************)
MaxLoads == 3
EthersCallers == 1..3

\* windowEthers: window.ethers is defined
\* scripts: the script elements appended to document.head, in order, each
\*          "loading", "loaded" or "failed"
\* ethCalls: each fetchAIPFromOnChain call: where it is, the script whose
\*           promise it awaits, and what ensureEthersLoaded gave it
VARIABLES windowEthers, scripts, ethCalls

EthIdle == [pc |-> "idle", script |-> 0, ethers |-> "none"]

\* const ethers = await ensureEthersLoaded(): window.ethers when it is set,
\* else a new script element and a promise of its load
CallFetchAIPFromOnChain(c) ==
  /\ ethCalls[c].pc # "waiting"
  /\ IF windowEthers
     THEN /\ ethCalls' = [ethCalls EXCEPT ![c] =
                            [pc |-> "done", script |-> 0, ethers |-> "ethers"]]
          /\ UNCHANGED scripts
     ELSE /\ Len(scripts) < MaxLoads
          /\ scripts' = Append(scripts, "loading")
          /\ ethCalls' = [ethCalls EXCEPT ![c] =
                            [pc |-> "waiting", script |-> Len(scripts) + 1,
                             ethers |-> "none"]]
  /\ UNCHANGED windowEthers

\* the promise of script k settles: the call that awaits it goes on with
\* ethers, or fetchAIPFromOnChain catches the rejection and returns null
SettleScript(k, ethers) ==
  [c \in EthersCallers |->
     IF ethCalls[c].pc = "waiting" /\ ethCalls[c].script = k
     THEN [pc |-> "done", script |-> k, ethers |-> ethers]
     ELSE ethCalls[c]]

\* script.onload; the library defines window.ethers when it runs, unless the
\* host page prevents it
ScriptOnLoad(k, defined) ==
  /\ k \in 1..Len(scripts)
  /\ scripts[k] = "loading"
  /\ scripts' = [scripts EXCEPT ![k] = "loaded"]
  /\ windowEthers' = (windowEthers \/ defined)
  /\ ethCalls' = SettleScript(k, IF windowEthers' THEN "ethers" ELSE "null")

\* script.onerror
ScriptOnError(k) ==
  /\ k \in 1..Len(scripts)
  /\ scripts[k] = "loading"
  /\ scripts' = [scripts EXCEPT ![k] = "failed"]
  /\ ethCalls' = SettleScript(k, "null")
  /\ UNCHANGED windowEthers

(***************************************************************************)
(* The unhandledrejection listener and the handledErrors set               *)
(***************************************************************************)
\* handledErrors: the errors added to the WeakSet
\* rejection: the last unhandledrejection event: its reason and whether the
\*            listener called preventDefault
VARIABLES handledErrors, rejection

NoReason == [name |-> "null", message |-> "null"]
Reasons == FetchErrors \cup {NoReason}
NoRejection == [seen |-> FALSE, reason |-> NoReason, prevented |-> FALSE]

\* handledErrors.add(error) of fetchWithRetry and of the catch blocks
MarkHandled(error) ==
  /\ error \notin handledErrors
  /\ handledErrors' = handledErrors \cup {error}
  /\ UNCHANGED rejection

\* the listener calls event.preventDefault(): the reason matches one of the
\* patterns; both branches on handledErrors.has(event.reason) prevent
ListenerPrevents(reason, handled) ==
  /\ reason # NoReason
  /\ \/ MessageIncludes(reason.message, "Failed to fetch")
     \/ MessageIncludes(reason.message, "ERR_CONNECTION_RESET")
     \/ MessageIncludes(reason.message, "network")
     \/ reason.name = "TypeError"
  /\ (reason \in handled \/ reason \notin handled)

\* window.addEventListener('unhandledrejection', ...) receives an event
UnhandledRejection(reason) ==
  /\ rejection' = [seen |-> TRUE, reason |-> reason,
                   prevented |-> ListenerPrevents(reason, handledErrors)]
  /\ rejection' # rejection
  /\ UNCHANGED handledErrors

(***************************************************************************)
(* calculateTimeRemaining, the time block of transformSnapshotData and     *)
(* formatTimeDisplay                                                       *)
(***************************************************************************)
\* end timestamps (seconds) and instants of Date.now() (milliseconds)
EndSeconds == {-5, 0, 1, 3600, 7200, 86399, 86400, 86401, 172800, 259200}

NowMillis == {0, 1, 999, 1000, 3600000, 3600001, 86399999, 86400000,
              86400001, 90000000, 172800000, 172800001, 345600000}

\* the text of formatTimeDisplay: its template and the numbers put into it
TimeText(template, a, b) == [template |-> template, first |-> a, second |-> b]

\* formatTimeDisplay(daysLeft, hoursLeft)
formatTimeDisplay(daysLeft, hoursLeft) ==
  IF ~daysLeft.defined THEN TimeText("Date unknown", 0, 0)
  ELSE IF daysLeft.value < 0
  THEN LET daysAgo == -daysLeft.value
       IN IF daysAgo >= 365
          THEN LET yearsAgo == daysAgo \div 365
                   monthsAgo == (daysAgo % 365) \div 30
               IN IF monthsAgo > 0
                  THEN TimeText("Ended years, months ago", yearsAgo, monthsAgo)
                  ELSE TimeText("Ended years ago", yearsAgo, 0)
          ELSE IF daysAgo >= 30
          THEN LET monthsAgo == daysAgo \div 30
                   remainingDays == daysAgo % 30
               IN IF remainingDays > 0
                  THEN TimeText("Ended months, days ago", monthsAgo, remainingDays)
                  ELSE TimeText("Ended months ago", monthsAgo, 0)
          ELSE TimeText("Ended days ago", daysAgo, 0)
  ELSE IF daysLeft.value = 0 /\ hoursLeft.defined
  THEN TimeText("Ends in hours!", hoursLeft.value, 0)
  ELSE IF daysLeft.value = 0 THEN TimeText("Ends today", 0, 0)
  ELSE IF daysLeft.value >= 365
  THEN LET yearsLeft == daysLeft.value \div 365
           monthsLeft == (daysLeft.value % 365) \div 30
       IN IF monthsLeft > 0
          THEN TimeText("years, months left", yearsLeft, monthsLeft)
          ELSE TimeText("years left", yearsLeft, 0)
  ELSE IF daysLeft.value >= 30
  THEN LET monthsLeft == daysLeft.value \div 30
           remainingDays == daysLeft.value % 30
       IN IF remainingDays > 0
          THEN TimeText("months, days left", monthsLeft, remainingDays)
          ELSE TimeText("months left", monthsLeft, 0)
  ELSE TimeText("days left", daysLeft.value, 0)

\* the numbers formatTimeDisplay is given directly
DaysLeftInputs == {NoTime} \cup {Time(v) : v \in {-800, -400, -365, -45, -30, -1, 0, 1, 29, 30, 45, 365, 400}}

HoursLeftInputs == {NoTime, Time(0), Time(1), Time(23)}

VARIABLES timeCall

TimeIdle == [op |-> "none", end |-> 0, at |-> 0, daysLeft |-> NoTime,
             hoursLeft |-> NoTime, text |-> TimeText("", 0, 0)]

TimeCallOf(op, end, at, remaining) ==
  [op |-> op, end |-> end, at |-> at, daysLeft |-> remaining.daysLeft,
   hoursLeft |-> remaining.hoursLeft,
   text |-> formatTimeDisplay(remaining.daysLeft, remaining.hoursLeft)]

\* calculateTimeRemaining(end) at instant t, and the text shown for it
CallCalculateTimeRemaining(end, t) ==
  timeCall' = TimeCallOf("calculateTimeRemaining", end, t,
                         calculateTimeRemaining(end, t))

\* transformSnapshotData of a proposal with that end at instant t
CallSnapshotTimeRemaining(end, t) ==
  timeCall' = TimeCallOf("transformSnapshotData", end, t,
                         SnapshotTimeRemaining(end, t))

\* formatTimeDisplay(daysLeft, hoursLeft)
CallFormatTimeDisplay(daysLeft, hoursLeft) ==
  timeCall' = TimeCallOf("formatTimeDisplay", 0, 0,
                         [daysLeft |-> daysLeft, hoursLeft |-> hoursLeft])

(***************************************************************************)
(* The Tally widget and its auto-refresh: renderStatusWidget,              *)
(* setupAutoRefresh and hideWidgetIfNoProposal of the Tally initializer    *)
(***************************************************************************)
MaxIntervals == 3

TallyWidgetIds == {"w1", "w2"}

NoInterval == 0

\* tallyDom: the data-tally-status-id of the .tally-status-widget-container
\*           elements of the page
\* refreshKeys: window[`tally_refresh_${widgetId}`], NoInterval when absent
\* intervals: the ids of the intervals that are running
\* intervalOwner: the widgetId in the closure of each setInterval callback,
\*           in the order the intervals were created
\* refreshing: the widgetId of the callback that awaits fetchProposalData
VARIABLES tallyDom, refreshKeys, intervals, intervalOwner, refreshing

NotRefreshing == "none"

TallyPage == [dom |-> tallyDom, keys |-> refreshKeys, live |-> intervals,
              owner |-> intervalOwner]

\* the allWidgets.forEach of renderStatusWidget and of
\* hideWidgetIfNoProposal: every widget is removed, and the interval
\* registered under its id is cleared and its key deleted
RemoveAllWidgets(pg) ==
  [pg EXCEPT !.dom = {},
             !.live = @ \ {pg.keys[w] : w \in pg.dom},
             !.keys = [w \in TallyWidgetIds |->
                         IF w \in pg.dom THEN NoInterval ELSE pg.keys[w]]]

\* renderStatusWidget(proposalData, originalUrl, widgetId, proposalInfo)
renderStatusWidget(pg, widgetId) ==
  [RemoveAllWidgets(pg) EXCEPT !.dom = {widgetId}]

\* setupAutoRefresh(widgetId, proposalInfo, url)
setupAutoRefresh(pg, widgetId) ==
  LET id == Len(pg.owner) + 1
  IN [pg EXCEPT !.live = (@ \ {pg.keys[widgetId]}) \cup {id},
                !.keys[widgetId] = id,
                !.owner = Append(@, widgetId)]

SetTallyPage(pg) ==
  /\ tallyDom' = pg.dom
  /\ refreshKeys' = pg.keys
  /\ intervals' = pg.live
  /\ intervalOwner' = pg.owner

\* the .then of the topic's fetchProposalData with valid data:
\* renderStatusWidget, showWidget, setupAutoRefresh
ShowTallyWidget(widgetId) ==
  /\ Len(intervalOwner) < MaxIntervals
  /\ SetTallyPage(setupAutoRefresh(renderStatusWidget(TallyPage, widgetId), widgetId))
  /\ UNCHANGED refreshing

\* hideWidgetIfNoProposal()
HideTallyWidgets ==
  /\ tallyDom # {}
  /\ SetTallyPage(RemoveAllWidgets(TallyPage))
  /\ UNCHANGED refreshing

\* the callback of interval t runs up to its await: a forced refresh of the
\* URL of the widget
IntervalFires(t) ==
  /\ t \in intervals
  /\ refreshing = NotRefreshing
  /\ TallyResolveCall(0, "T1", TRUE)
  /\ refreshing' = intervalOwner[t]
  /\ UNCHANGED <<tallyDom, refreshKeys, intervals, intervalOwner>>

\* the callback continues with freshData
RefreshContinues ==
  /\ refreshing # NotRefreshing
  /\ returned[0].pc = "done"
  /\ LET freshData == returned[0].rec
     IN IF freshData # Null /\ freshData.title \notin {"", "Tally Proposal"}
        THEN SetTallyPage(renderStatusWidget(TallyPage, refreshing))
        ELSE UNCHANGED <<tallyDom, refreshKeys, intervals, intervalOwner>>
  /\ refreshing' = NotRefreshing

(***************************************************************************)
(* Specifications                                                          *)
(***************************************************************************)
corePure == <<fw, proposalsList, selected, selectedBy, statusCall, merges>>
svcVars == <<urlCall, voteCall, snapCall, windowEthers, scripts, ethCalls, handledErrors, rejection, timeCall, tallyDom, refreshKeys, intervals, intervalOwner, refreshing>>
pureVars == <<corePure, svcVars>>
pipeVars == <<now, world, proposalCache, tallyCache, calls, returned,
              thread, passes, fetchingUrls, renderingUrls, widgets,
              winSnapshot, winAip>>
vars == <<fw, proposalsList, selected, selectedBy, statusCall, merges,
          urlCall, voteCall, snapCall, windowEthers, scripts, ethCalls, handledErrors, rejection, timeCall, tallyDom, refreshKeys, intervals, intervalOwner, refreshing,
          now, world, proposalCache, tallyCache, calls, returned,
          thread, passes, fetchingUrls, renderingUrls, widgets,
          winSnapshot, winAip>>

DefaultWorld ==
  [u \in AllUrls |->
     [status |-> IF u \in {"S1", "T1"} THEN "active" ELSE "executed",
      stage |-> IF u = "S1" THEN "temp-check"
                ELSE IF u = "S2" THEN "arfc" ELSE ""]]

InitSvc ==
  /\ refreshing = NotRefreshing
  /\ intervalOwner = <<>>
  /\ intervals = {}
  /\ refreshKeys = [w \in TallyWidgetIds |-> NoInterval]
  /\ tallyDom = {}
  /\ timeCall = TimeIdle
  /\ rejection = NoRejection
  /\ handledErrors = {}
  /\ ethCalls = [c \in EthersCallers |-> EthIdle]
  /\ scripts = <<>>
  /\ windowEthers = FALSE
  /\ snapCall = SnapIdle
  /\ voteCall = VoteIdle
  /\ urlCall = UrlIdle

InitPure ==
  /\ InitSvc
  /\ fw = FwIdle
  /\ proposalsList = <<>>
  /\ selected = <<>>
  /\ selectedBy = "none"
  /\ statusCall = StIdle
  /\ merges = <<>>

InitPipe ==
  /\ now = 0
  /\ world = DefaultWorld
  /\ proposalCache = [u \in Urls |-> Null]
  /\ tallyCache = [u \in TallyUrls |-> Null]
  /\ calls = {}
  /\ returned = [d \in Directs |-> Idle]
  /\ thread = <<>>
  /\ passes = [p \in PassIds |-> PassIdle]
  /\ fetchingUrls = {}
  /\ renderingUrls = {}
  /\ widgets = {}
  /\ winSnapshot = <<>>
  /\ winAip = <<>>

\* fetchWithRetry on its own
InitRetry == InitPure /\ InitPipe

NextRetry ==
  \/ \E m \in 0..MaxRetriesBound, b \in BaseDelays :
       /\ FetchWithRetryCall(m, b)
       /\ UNCHANGED <<proposalsList, selected, selectedBy, statusCall, merges>>
       /\ UNCHANGED <<pipeVars, svcVars>>
  \/ AttemptResolves /\ UNCHANGED <<proposalsList, selected, selectedBy, statusCall, merges>>
                     /\ UNCHANGED <<pipeVars, svcVars>>
  \/ \E e \in FetchErrors :
       /\ AttemptRejects(e)
       /\ UNCHANGED <<proposalsList, selected, selectedBy, statusCall, merges>>
       /\ UNCHANGED <<pipeVars, svcVars>>
  \/ BackoffElapses /\ UNCHANGED <<proposalsList, selected, selectedBy, statusCall, merges>>
                    /\ UNCHANGED <<pipeVars, svcVars>>

SpecRetry == InitRetry /\ [][NextRetry]_vars

\* the selectors on every candidate list
InitSelect ==
  /\ fw = FwIdle
  /\ proposalsList \in CandidateLists
  /\ selected = <<>>
  /\ selectedBy = "none"
  /\ statusCall = StIdle
  /\ merges = <<>>
  /\ InitSvc
  /\ InitPipe

NextSelect ==
  \/ CallSelectTopProposals /\ UNCHANGED <<fw, statusCall, merges>> /\ UNCHANGED <<pipeVars, svcVars>>
  \/ CallSelectTopProposalsInline /\ UNCHANGED <<fw, statusCall, merges>> /\ UNCHANGED <<pipeVars, svcVars>>

SpecSelect == InitSelect /\ [][NextSelect]_vars

\* the resolvers, the caches and the clock
Init == InitPure /\ InitPipe

Next ==
  \/ \E d \in TickSteps : Tick(d) /\ UNCHANGED pureVars
  \/ \E d \in Directs, u \in DirectUrls, f \in BOOLEAN :
       ResolveCall(d, u, f) /\ UNCHANGED pureVars
  \/ \E c \in calls, k \in SnapshotKinds :
       SnapshotResponse(c, k) /\ UNCHANGED pureVars
  \/ \E c \in calls, k \in AipKinds :
       AipResponse(c, k) /\ UNCHANGED pureVars
  \/ \E d \in Directs, u \in TallyUrls, f \in BOOLEAN :
       TallyResolveCall(d, u, f) /\ UNCHANGED pureVars
  \/ \E c \in calls, k \in TallyKinds :
       TallyResponse(c, k) /\ UNCHANGED pureVars

Spec == Init /\ [][Next]_vars

\* rendering passes over a topic
PassWorlds ==
  {[DefaultWorld EXCEPT !["A1"].status = st] : st \in {"active", "executed"}}

InitPass ==
  /\ InitPure
  /\ now = 0
  /\ world \in PassWorlds
  /\ proposalCache = [u \in Urls |-> Null]
  /\ tallyCache = [u \in TallyUrls |-> Null]
  /\ calls = {}
  /\ returned = [d \in Directs |-> Idle]
  /\ thread = <<>>
  /\ passes = [p \in PassIds |-> PassIdle]
  /\ fetchingUrls = {}
  /\ renderingUrls = {}
  /\ widgets = {}
  /\ winSnapshot = <<>>
  /\ winAip = <<>>

NextPass ==
  \/ \E t \in Threads : TopicChanges(t) /\ UNCHANGED pureVars
  \/ \E p \in PassIds : PassStart(p) /\ UNCHANGED pureVars
  \/ \E c \in calls, k \in SnapshotKinds :
       SnapshotResponse(c, k) /\ UNCHANGED pureVars
  \/ \E c \in calls, k \in AipKinds :
       AipResponse(c, k) /\ UNCHANGED pureVars

SpecPass == InitPass /\ [][NextPass]_vars

\* the status functions, each on every input
NextStatus ==
  \/ \E s \in PriorityInputs :
       CallGetStatePriority(s)
         /\ UNCHANGED <<fw, proposalsList, selected, selectedBy, merges>> /\ UNCHANGED <<pipeVars, svcVars>>
  \/ \E s \in StatusInputs :
       CallFormatStatusForDisplay(s)
         /\ UNCHANGED <<fw, proposalsList, selected, selectedBy, merges>> /\ UNCHANGED <<pipeVars, svcVars>>
  \/ \E s \in StatusInputs, f \in VotesForInputs, a \in VotesAgainstInputs,
        b \in VotesAbstainInputs, q \in QuorumInputs :
       CallRenderStatusWidget(s, f, a, b, q)
         /\ UNCHANGED <<fw, proposalsList, selected, selectedBy, merges>> /\ UNCHANGED <<pipeVars, svcVars>>
  \/ \E s \in StatusInputs, f \in VotesForInputs, a \in VotesAgainstInputs,
        b \in VotesAbstainInputs, q \in QuorumInputs :
       CallRenderStatusWidgetTally(s, f, a, b, q)
         /\ UNCHANGED <<fw, proposalsList, selected, selectedBy, merges>> /\ UNCHANGED <<pipeVars, svcVars>>

SpecStatus == Init /\ [][NextStatus]_vars

\* mergeProposalData on every combination of payloads
NextMerge ==
  \/ \E oc \in OnChainPayloads, md \in MarkdownPayloads, sg \in SubgraphPayloads :
       CallMergeProposalData(oc, md, sg)
         /\ UNCHANGED <<fw, proposalsList, selected, selectedBy, statusCall>>
         /\ UNCHANGED <<pipeVars, svcVars>>
  \/ \E md \in MarkdownPayloads :
       CallMergeProposalDataAgain(md)
         /\ UNCHANGED <<fw, proposalsList, selected, selectedBy, statusCall>>
         /\ UNCHANGED <<pipeVars, svcVars>>

SpecMerge == Init /\ [][NextMerge]_vars

\* the classifier on every input, and the AIP resolver on its on-chain path
NextClassify ==
  \/ \E u \in ClassifierInputs :
       CallExtractSnapshotProposalInfo(u) /\ UNCHANGED <<corePure, pipeVars, voteCall, snapCall, windowEthers, scripts, ethCalls, handledErrors, rejection, timeCall, tallyDom, refreshKeys, intervals, intervalOwner, refreshing>>
  \/ \E u \in ClassifierInputs :
       CallExtractAIPProposalInfo(u) /\ UNCHANGED <<corePure, pipeVars, voteCall, snapCall, windowEthers, scripts, ethCalls, handledErrors, rejection, timeCall, tallyDom, refreshKeys, intervals, intervalOwner, refreshing>>
  \/ \E u \in ClassifierInputs :
       CallExtractProposalInfo(u) /\ UNCHANGED <<corePure, pipeVars, voteCall, snapCall, windowEthers, scripts, ethCalls, handledErrors, rejection, timeCall, tallyDom, refreshKeys, intervals, intervalOwner, refreshing>>
  \/ \E t \in UrlTexts, n \in OnChainStates, f \in ProposalStateFields :
       CallFetchAipOnChain(t, n, f) /\ UNCHANGED <<corePure, pipeVars, voteCall, snapCall, windowEthers, scripts, ethCalls, handledErrors, rejection, timeCall, tallyDom, refreshKeys, intervals, intervalOwner, refreshing>>

SpecClassify == Init /\ [][NextClassify]_vars

\* the vote conversion of fetchAIPFromSubgraph on every votes field
NextVotes ==
  \E v \in VotesInputs :
    CallConvertVotes(v) /\ UNCHANGED <<corePure, pipeVars, urlCall, snapCall, windowEthers, scripts, ethCalls, handledErrors, rejection, timeCall, tallyDom, refreshKeys, intervals, intervalOwner, refreshing>>

SpecVotes == Init /\ [][NextVotes]_vars

\* transformSnapshotData on every answer
NextTransform ==
  \E c \in ChoiceLists, t \in ScoresTotals : \E s \in ScoreLists(c) :
    CallTransformSnapshotData(c, s, t)
      /\ UNCHANGED <<corePure, pipeVars, urlCall, voteCall, windowEthers, scripts, ethCalls, handledErrors, rejection, timeCall, tallyDom, refreshKeys, intervals, intervalOwner, refreshing>>

SpecTransform == Init /\ [][NextTransform]_vars

\* on-chain fetches that load the client, in every interleaving
NextEthers ==
  \/ \E c \in EthersCallers :
       CallFetchAIPFromOnChain(c)
         /\ UNCHANGED <<corePure, pipeVars, urlCall, voteCall, snapCall,
                        handledErrors, rejection, timeCall, tallyDom, refreshKeys, intervals, intervalOwner, refreshing>>
  \/ \E k \in 1..MaxLoads, d \in BOOLEAN :
       ScriptOnLoad(k, d)
         /\ UNCHANGED <<corePure, pipeVars, urlCall, voteCall, snapCall,
                        handledErrors, rejection, timeCall, tallyDom, refreshKeys, intervals, intervalOwner, refreshing>>
  \/ \E k \in 1..MaxLoads :
       ScriptOnError(k)
         /\ UNCHANGED <<corePure, pipeVars, urlCall, voteCall, snapCall,
                        handledErrors, rejection, timeCall, tallyDom, refreshKeys, intervals, intervalOwner, refreshing>>

SpecEthers == Init /\ [][NextEthers]_vars

\* rejections reaching the listener while errors are marked as handled
NextReject ==
  \/ \E e \in FetchErrors :
       MarkHandled(e)
         /\ UNCHANGED <<corePure, pipeVars, urlCall, voteCall, snapCall,
                        windowEthers, scripts, ethCalls, timeCall, tallyDom, refreshKeys, intervals, intervalOwner, refreshing>>
  \/ \E r \in Reasons :
       UnhandledRejection(r)
         /\ UNCHANGED <<corePure, pipeVars, urlCall, voteCall, snapCall,
                        windowEthers, scripts, ethCalls, timeCall, tallyDom, refreshKeys, intervals, intervalOwner, refreshing>>

SpecReject == Init /\ [][NextReject]_vars

\* the time computations on end times around the instant of the call
NextTime ==
  \/ \E end \in EndSeconds, t \in NowMillis :
       CallCalculateTimeRemaining(end, t)
         /\ UNCHANGED <<corePure, pipeVars, urlCall, voteCall, snapCall,
                        windowEthers, scripts, ethCalls, handledErrors,
                        rejection, tallyDom, refreshKeys, intervals, intervalOwner, refreshing>>
  \/ \E end \in EndSeconds, t \in NowMillis :
       CallSnapshotTimeRemaining(end, t)
         /\ UNCHANGED <<corePure, pipeVars, urlCall, voteCall, snapCall,
                        windowEthers, scripts, ethCalls, handledErrors,
                        rejection, tallyDom, refreshKeys, intervals, intervalOwner, refreshing>>
  \/ \E daysLeft \in DaysLeftInputs, hoursLeft \in HoursLeftInputs :
       CallFormatTimeDisplay(daysLeft, hoursLeft)
         /\ UNCHANGED <<corePure, pipeVars, urlCall, voteCall, snapCall,
                        windowEthers, scripts, ethCalls, handledErrors,
                        rejection, tallyDom, refreshKeys, intervals, intervalOwner, refreshing>>

SpecTime == Init /\ [][NextTime]_vars

otherSvc == <<urlCall, voteCall, snapCall, windowEthers, scripts, ethCalls,
              handledErrors, rejection, timeCall>>

\* a Tally widget is shown, refreshed by its interval, and hidden
NextRefresh ==
  \/ \E w \in TallyWidgetIds :
       ShowTallyWidget(w) /\ UNCHANGED <<corePure, pipeVars, otherSvc>>
  \/ HideTallyWidgets /\ UNCHANGED <<corePure, pipeVars, otherSvc>>
  \/ \E t \in 1..MaxIntervals :
       IntervalFires(t) /\ UNCHANGED <<corePure, otherSvc>>
  \/ \E c \in calls, k \in TallyKinds :
       TallyResponse(c, k) /\ UNCHANGED pureVars
  \/ RefreshContinues /\ UNCHANGED <<corePure, pipeVars, otherSvc>>

SpecRefresh == Init /\ [][NextRefresh]_vars

(***************************************************************************)
(* Properties                                                              *)
(***************************************************************************)
SupplyingKinds == {"proposal", "found"}

CacheOf(url) == IF url \in TallyUrls THEN tallyCache[url] ELSE proposalCache[url]

\* a direct caller starts a resolve in this step
CallStarts(d) == returned[d].pc # "waiting" /\ returned'[d] # returned[d]

\* C1: a non-forced resolve of a URL that has a cache entry returns that
\* entry, without issuing any request and without touching the cache, when
\* the entry is younger than 300000 ms; at age 300000 ms or more it deletes
\* the entry and issues a fresh request.
CacheTtlStep ==
  \A d \in Directs :
    LET r == returned'[d]
        entry == CacheOf(r.url)
    IN (CallStarts(d) /\ ~r.force /\ r.url \in AllUrls /\ entry # Null) =>
         IF now - entry.cachedAt < 300000
         THEN /\ r.pc = "done" /\ r.via = "cache" /\ r.rec = entry
              /\ calls' = calls
              /\ proposalCache' = proposalCache /\ tallyCache' = tallyCache
         ELSE /\ r.pc = "waiting"
              /\ \E c \in calls' \ calls : c.caller = d /\ c.url = r.url
              /\ IF r.url \in TallyUrls THEN tallyCache'[r.url] = Null
                 ELSE proposalCache'[r.url] = Null

CacheTtl == [][CacheTtlStep]_vars

CacheTtlWitness ==
  /\ returned[0].pc = "done" /\ returned[0].via = "cache"
  /\ ~returned[0].force
  /\ returned[0].ageAtCall = 299999

\* C2: a resolve with forceRefresh = true of a resolvable URL never returns
\* at the cache check, even with a fresh entry: it issues a request and
\* leaves the entry in place; when a source supplies the proposal the entry
\* of that URL becomes the new record, stamped with the current time.
ForcedRefreshStep ==
  \A d \in Directs :
    LET r == returned'[d] IN
    /\ (CallStarts(d) /\ r.force /\ (Extractable(r.url) \/ r.url \in TallyUrls)) =>
         /\ r.pc = "waiting"
         /\ \E c \in calls' \ calls : c.caller = d /\ c.url = r.url
         /\ proposalCache' = proposalCache /\ tallyCache' = tallyCache
    /\ (returned[d].pc = "waiting" /\ r.pc = "done" /\ r.force) =>
         /\ r.via # "cache"
         /\ r.lastKind \in SupplyingKinds =>
              /\ r.rec.url = r.url /\ r.rec.cachedAt = now
              /\ IF r.url \in TallyUrls THEN tallyCache'[r.url] = r.rec
                 ELSE proposalCache'[r.url] = r.rec

ForcedRefresh == [][ForcedRefreshStep]_vars

ForcedRefreshWitness ==
  /\ returned[0].pc = "done" /\ returned[0].force
  /\ returned[0].ageAtCall > 0 /\ returned[0].ageAtCall < 300000
  /\ returned[0].via = "fetch"
  /\ returned[0].rec.cachedAt = now
  /\ returned[0].url \in Urls
  /\ proposalCache[returned[0].url] = returned[0].rec

\* the errors the retry loop is meant to retry
ClassifiedTransient(e) ==
  \/ e.name \in {"AbortError", "TypeError", "NetworkError"}
  \/ e.message \in {"Failed to fetch", "ERR_QUIC_PROTOCOL_ERROR", "network changed"}

\* C3: when every attempt failed with a transient error the call has thrown
\* only after exactly maxRetries attempts, the i-th wait (0-indexed) was
\* baseDelay * 2^i, and there are maxRetries - 1 waits (none after the last
\* attempt).
RetryBound ==
  /\ (fw.pc = "thrown" /\ \A i \in 1..Len(fw.errs) : ClassifiedTransient(fw.errs[i])) =>
       /\ fw.attempts = fw.maxRetries
       /\ Len(fw.errs) = fw.maxRetries
       /\ Len(fw.waits) = IF fw.maxRetries = 0 THEN 0 ELSE fw.maxRetries - 1
  /\ \A i \in 1..Len(fw.waits) : fw.waits[i] = fw.baseDelay * (2 ^ (i - 1))
  /\ fw.pc = "waiting" => Len(fw.waits) = fw.attempts /\ fw.attempts < fw.maxRetries

RetryBoundWitness ==
  /\ fw.pc = "thrown" /\ fw.maxRetries = 3 /\ fw.baseDelay = 1000
  /\ fw.attempts = 3
  /\ fw.waits = <<1000, 2000>>
  /\ \A i \in 1..3 : ClassifiedTransient(fw.errs[i])
  /\ \E i \in 1..3 : fw.errs[i].name = "AbortError"

\* C4: an attempt that fails with an error that is neither the timeout nor
\* a network/transport error is the last attempt: the call has thrown and
\* no wait and no further attempt followed it.
NoRetryOfOtherErrors ==
  \A i \in 1..Len(fw.errs) :
    ~ClassifiedTransient(fw.errs[i]) =>
      /\ i = Len(fw.errs)
      /\ fw.pc = "thrown"
      /\ fw.attempts = i
      /\ Len(fw.waits) = i - 1

NoRetryOfOtherErrorsWitness ==
  /\ fw.pc = "thrown"
  /\ Len(fw.errs) = 2 /\ fw.maxRetries = 4
  /\ ClassifiedTransient(fw.errs[1])
  /\ ~ClassifiedTransient(fw.errs[2])

Supplied(r) == r.via = "cache" \/ r.lastKind \in SupplyingKinds

BothKinds(pass) == SnapshotLinks(pass.links) # <<>> /\ AipLinks(pass.links) # <<>>

IsRecord(rec) == rec \notin {Null, Pending, Unused}

\* C6: in a pass with Snapshot and AIP links the selector was run with no
\* fetch of the pass still pending, and every proposal the pass resolved is
\* among the candidates it was given.
SelectorAfterAllSettled ==
  \A p \in PassIds :
    (passes[p].sel.ran /\ BothKinds(passes[p])) =>
      /\ passes[p].sel.pending = {}
      /\ \A u \in PassUrls :
           IsRecord(passes[p].res[u]) => u \in Range(passes[p].sel.cands)

\* C7: no two fetches of the same URL are in flight
NoDuplicateFetch ==
  \A c1, c2 \in calls : c1.url = c2.url => c1 = c2

\* C8: at most 3 proposals are selected, and when the candidates are of
\* more than one type bucket no bucket has more than 2 of them (up to 3
\* when all candidates are of one bucket).
BucketCount(list, k) == Cardinality({i \in 1..Len(list) : TypeKey(list[i]) = k})

Buckets(list) == {TypeKey(list[i]) : i \in 1..Len(list)}

DiversityCap ==
  selectedBy # "none" =>
    /\ Len(selected) <= 3
    /\ \A k \in {"tempcheck", "arfc", "aip"} :
         BucketCount(selected, k) <=
           IF Cardinality(Buckets(proposalsList)) = 1 THEN 3 ELSE 2

DiversityCapWitness ==
  /\ selectedBy = "url-parser"
  /\ Cardinality(Buckets(proposalsList)) = 2
  /\ BucketCount(proposalsList, "arfc") = 3
  /\ BucketCount(selected, "arfc") = 2
  /\ Len(selected) = 3
  /\ \E i \in 1..Len(proposalsList) :
       /\ TypeKey(proposalsList[i]) = "arfc"
       /\ proposalsList[i] \notin Range(selected)
       /\ \E j \in 1..Len(selected) :
            getStatePriority(selected[j].status) > getStatePriority(proposalsList[i].status)

\* the position of a link in the topic (0 when the topic does not have it)
ThreadPos(links, u) == findIndex(links, u) + 1

\* C9: the proposals handed to the renderer are in ascending priority
\* score, and those of equal score in the order of their links in the topic.
SelectionInThreadOrder ==
  \A p \in PassIds :
    LET sel == passes[p].sel.selected
        links == passes[p].links
    IN passes[p].sel.ran =>
         \A i, j \in 1..Len(sel) :
           (i < j /\ sel[i].url \in Range(links) /\ sel[j].url \in Range(links)) =>
             \/ getStatePriority(sel[i].status) < getStatePriority(sel[j].status)
             \/ /\ getStatePriority(sel[i].status) = getStatePriority(sel[j].status)
                /\ ThreadPos(links, sel[i].url) < ThreadPos(links, sel[j].url)

\* C10: the selector returns min(3, n) of its n candidates
SelectorFills ==
  selectedBy # "none" => Len(selected) = Min(3, Len(proposalsList))

\* the score the priority table gives a status text
TablePriority(status) ==
  IF status \in {"active", "Active", "open", "voting"} THEN 1
  ELSE IF status = "created" THEN 2
  ELSE IF status \in {"pending", "pending-execution", "pending execution",
                      "queued", " queued "} THEN 3
  ELSE IF status \in {"executed", "EXECUTED", "completed", "passed"} THEN 4
  ELSE IF status \in {"closed", "ended", "expired"} THEN 5
  ELSE IF status \in {"failed", "defeated", "rejected", "quorum-not-reached",
                      "quorum not reached", "cancelled", "canceled"} THEN 6
  ELSE 7

\* C11: getStatePriority gives every status the score of the priority
\* table, whatever its casing and including the spellings canceled,
\* pending-execution and quorum-not-reached.
PriorityTable ==
  statusCall.op = "getStatePriority" =>
    statusCall.priority = TablePriority(statusCall.status)

WidgetCall == statusCall.op \in {"renderStatusWidget", "renderStatusWidgetTally"}

TotalVotes == statusCall.votesFor + statusCall.votesAgainst + statusCall.votesAbstain

QuorumDefined == statusCall.quorum.defined /\ statusCall.quorum.value > 0

NamesPendingExecution ==
  {"Pending Execution", "pending_execution", "pendingexecution",
   " PENDING  EXECUTION "}

RawQueued == {"queued", "Queued"}

RawDefeatFamily == {"defeat", "defeated", "Defeated", "rejected"}

\* C12: the widget treats a proposal as pending execution when its raw
\* status names pending execution in any casing or spacing, and a queued
\* proposal exactly when the quorum is reached (quorum > 0, total votes >=
\* quorum) and for-votes > against-votes; otherwise a queued proposal stays
\* queued.
PendingExecutionRule ==
  WidgetCall =>
    LET passed == /\ QuorumDefined
                  /\ TotalVotes >= statusCall.quorum.value
                  /\ statusCall.votesFor > statusCall.votesAgainst
    IN /\ statusCall.status \in NamesPendingExecution =>
            statusCall.isPendingExecution /\ statusCall.badge = "pending"
       /\ statusCall.status \in RawQueued =>
            IF passed
            THEN /\ statusCall.isPendingExecution
                 /\ statusCall.badge = "pending"
                 /\ statusCall.label =
                      IF statusCall.op = "renderStatusWidget"
                      THEN Chars["Pending Execution"]
                      ELSE Chars["Pending execution"]
            ELSE /\ ~statusCall.isPendingExecution
                 /\ statusCall.badge = "queued"
                 /\ statusCall.label =
                      IF statusCall.op = "renderStatusWidget"
                      THEN Chars["Queued"]
                      ELSE Chars[statusCall.status]

PendingExecutionRuleWitness ==
  /\ statusCall.op = "renderStatusWidget"
  /\ statusCall.status = "queued"
  /\ statusCall.quorum = [defined |-> TRUE, value |-> 100]
  /\ statusCall.votesFor = 90 /\ statusCall.votesAgainst = 60
  /\ statusCall.votesAbstain = 0
  /\ statusCall.isPendingExecution
  /\ statusCall.label = Chars["Pending Execution"]

\* C13: a defeat-family raw status (defeat, defeated, rejected) with a
\* quorum > 0 and total votes below it (zero included) is shown as quorum
\* not reached.
QuorumNotReachedRule ==
  (/\ WidgetCall
   /\ statusCall.status \in RawDefeatFamily
   /\ QuorumDefined
   /\ TotalVotes < statusCall.quorum.value) =>
    statusCall.badge = "quorum-not-reached"

\* C14: with quorum 0 or undefined a queued proposal is in the queued
\* category and a defeat-family proposal in the defeated category, whatever
\* the votes are.
NoQuorumNoReclassification ==
  (WidgetCall /\ ~QuorumDefined) =>
    /\ statusCall.status \in RawQueued =>
         ~statusCall.isPendingExecution /\ statusCall.badge = "queued"
    /\ statusCall.status \in RawDefeatFamily => statusCall.badge = "defeated"

\* C15: formatStatusForDisplay returns the label of the table for a status
\* that is (lower-cased and trimmed) a key of the table, and the status with
\* its first letter capitalized for every other status.
DisplayLabelFallback ==
  (statusCall.op = "formatStatusForDisplay" /\ statusCall.status # "") =>
    LET text == Chars[statusCall.status]
        keys == {i \in 1..Len(statusMap) :
                   Chars[statusMap[i][1]] = trim(toLowerCase(text))}
    IN IF keys # {}
       THEN \E i \in keys : statusCall.label = Chars[statusMap[i][2]]
       ELSE statusCall.label = capitalizeFirst(text)

MergedFields == {"forVotes", "againstVotes", "status"}

\* C16: when the on-chain payload is given, each of forVotes, againstVotes
\* and status of the merged record is the on-chain value when on-chain has
\* it, the indexed value when on-chain lacks it and the indexed payload has
\* it, and undefined when neither has it.
VotesStatusPrecedence ==
  \A i \in 1..Len(merges) :
    LET c == merges[i] IN
    c.onChainData.present =>
      /\ ~c.merged.threw
      /\ \A f \in MergedFields :
           c.merged[f] =
             IF c.onChainData[f] # Undefined THEN c.onChainData[f]
             ELSE IF c.subgraphMetadata.present THEN c.subgraphMetadata[f]
             ELSE Undefined

\* C17: the merged title and description are the document's when the
\* document has one, otherwise the indexed payload's when it has one,
\* otherwise the on-chain default.
ContentPrecedence ==
  \A i \in 1..Len(merges) :
    LET c == merges[i] IN
    c.onChainData.present =>
      \A f \in {"title", "description"} :
        c.merged[f] =
          IF c.markdownData.present /\ Truthy(c.markdownData[f])
          THEN c.markdownData[f]
          ELSE IF c.subgraphMetadata.present /\ Truthy(c.subgraphMetadata[f])
          THEN c.subgraphMetadata[f]
          ELSE c.onChainData[f]

\* C18: two merges of the same on-chain and indexed payloads, with and
\* without a document (or with different documents), have the same
\* forVotes, againstVotes and status.
DocumentNotAuthoritative ==
  (Len(merges) = 2 /\ ~merges[1].merged.threw /\ ~merges[2].merged.threw) =>
    \A f \in MergedFields : merges[1].merged[f] = merges[2].merged[f]

\* C19: every merge completes, and its record is tagged on-chain when the
\* on-chain payload was given, subgraph when only the indexed payload was
\* given, unknown when neither was given.
ProvenanceTag ==
  \A i \in 1..Len(merges) :
    LET c == merges[i] IN
    /\ ~c.merged.threw
    /\ c.merged.dataSource =
         IF c.onChainData.present THEN "on-chain"
         ELSE IF c.subgraphMetadata.present THEN "subgraph"
         ELSE "unknown"

\* C20: fetchAIPProposal asks the subgraph first; it asks the chain only
\* after the subgraph returned nothing, never after the subgraph returned a
\* record (which is then the result); the result is null only when the
\* chain also returned nothing.
FetchOrderStep ==
  /\ \A c \in calls :
       (c.impl = "aip" /\ c.caller \in Directs /\ c \notin calls') =>
         LET r == returned'[c.caller]
             next == {n \in calls' \ calls : n.caller = c.caller /\ n.url = c.url}
         IN IF c.step = 1
            THEN \/ /\ r.lastKind = "found"
                    /\ next = {}
                    /\ r.pc = "done" /\ r.rec # Null /\ r.rec.chain = "thegraph"
                 \/ /\ r.lastKind = "nothing"
                    /\ r.pc = "waiting"
                    /\ Cardinality(next) = 1
                    /\ \A n \in next : n.step = 2
            ELSE /\ returned[c.caller].lastKind = "nothing"
                 /\ next = {}
                 /\ r.pc = "done"
                 /\ r.lastKind = "found" => r.rec # Null /\ r.rec.chain = "onchain"
                 /\ r.lastKind = "nothing" => r.rec = Null
  /\ \A n \in calls' \ calls :
       (n.impl = "aip" /\ n.step # 1) =>
         \E c \in calls \ calls' : c.step = 1 /\ c.caller = n.caller /\ c.url = n.url

ClaimedStatus(frontEnd, state) ==
  IF frontEnd = "vote.onaave.com"
  THEN IF state = 2 THEN "passed" ELSE "failed"
  ELSE IF state = 2 THEN "active" ELSE "queued"

StateMappingByFrontEnd ==
  (urlCall.op = "fetchAipOnChain" /\ ~urlCall.isNull /\ urlCall.state \in {2, 3})
    => urlCall.status = ClaimedStatus(urlCall.info.urlSource, urlCall.state)

\* C26: every call of extractProposalInfo, extractSnapshotProposalInfo and
\* extractAIPProposalInfo returns an identifier or null; none throws
ClassifierOps == {"extractProposalInfo", "extractSnapshotProposalInfo",
                  "extractAIPProposalInfo"}

ClassifierTotality ==
  urlCall.op \in ClassifierOps =>
    /\ ~urlCall.threw
    /\ urlCall.isNull \/ (urlCall.info.found /\ urlCall.info.proposalId # <<>>)
    /\ ~(urlCall.isNull /\ urlCall.info.found)

\* an argument that is not a string made url.includes fail inside the try
\* block, and the call has returned null
ClassifierTotalityWitness ==
  /\ urlCall.op = "extractSnapshotProposalInfo"
  /\ urlCall.url.type = "number"
  /\ ~urlCall.threw
  /\ urlCall.isNull

\* C22: a raw vote value v is converted to floor(v / 10^18): the result q
\* is a whole number with q * 10^18 <= v < (q + 1) * 10^18
Zeros(n) == [i \in 1..n |-> "0"]
TimesScale(q) == IF q = 0 THEN <<"0">> ELSE NatToDigits(q) \o Zeros(18)

\* a <= b for two integers written without leading zeros
NumLeq(a, b) ==
  \/ Len(a) < Len(b)
  \/ /\ Len(a) = Len(b)
     /\ \/ a = b
        \/ \E i \in 1..Len(a) :
             /\ SubSeq(a, 1, i - 1) = SubSeq(b, 1, i - 1)
             /\ DigitValue(a[i]) < DigitValue(b[i])

CanonicalDigits(text) ==
  LET ds == VoteChars[text]
      nz == {i \in 1..Len(ds) : ds[i] # "0"}
  IN IF nz = {} THEN <<"0">> ELSE SubSeq(ds, Least(nz), Len(ds))

IsFloorOf(result, text) ==
  /\ ~result.isNull
  /\ result.digits # <<>>
  /\ \A i \in 1..Len(result.digits) : result.digits[i] \in Digit
  /\ LET q == DigitsToNat(result.digits)
         v == CanonicalDigits(text)
     IN /\ NumLeq(TimesScale(q), v)
        /\ NumLeq(TimesScale(q + 1), v) = FALSE

VoteScaling ==
  (voteCall.op # "none" /\ voteCall.votes.kind \in {"object", "list"}) =>
    /\ voteCall.votes.forVotes.defined =>
         IsFloorOf(voteCall.forVotes, voteCall.votes.forVotes.text)
    /\ voteCall.votes.againstVotes.defined =>
         IsFloorOf(voteCall.againstVotes, voteCall.votes.againstVotes.text)

\* 5999999999999999999 became 5 and 5000000000000000000 became 5
VoteScalingWitness ==
  /\ voteCall.op = "fetchAIPFromSubgraph"
  /\ voteCall.votes.forVotes = [defined |-> TRUE, text |-> "5999999999999999999"]
  /\ voteCall.votes.againstVotes = [defined |-> TRUE, text |-> "5000000000000000000"]
  /\ voteCall.forVotes = [isNull |-> FALSE, digits |-> <<"5">>]
  /\ voteCall.againstVotes = [isNull |-> FALSE, digits |-> <<"5">>]

\* C23: when the votes field is null, missing or an empty list, forVotes and
\* againstVotes are null; a vote count of 0 is given only when vote data is
\* present
HasVoteData(votes) == votes.kind \in {"object", "list"}
IsZero(result) == ~result.isNull /\ result.digits = <<"0">>

VotesUnavailableIsNull ==
  voteCall.op # "none" =>
    /\ ~HasVoteData(voteCall.votes) =>
         voteCall.forVotes.isNull /\ voteCall.againstVotes.isNull
    /\ (IsZero(voteCall.forVotes) \/ IsZero(voteCall.againstVotes)) =>
         HasVoteData(voteCall.votes)

\* C30 as claimed: each percent of a Snapshot record is the count of the
\* choice divided by the sum of the scores (times 100), whatever scores_total
\* says
CountedSum(scores) ==
  IF scores = <<>> THEN 0
  ELSE LET f[i \in 0..Len(scores)] == IF i = 0 THEN 0 ELSE f[i - 1] + scores[i]
       IN f[Len(scores)]

IsShareOf(stat, total) ==
  IF total > 0 THEN stat.percent.num * total = stat.count * 100 * stat.percent.den
  ELSE stat.percent.num = 0

SharesOf(total) ==
  /\ IsShareOf(snapCall.voteStats.for, total)
  /\ IsShareOf(snapCall.voteStats.against, total)
  /\ IsShareOf(snapCall.voteStats.abstain, total)

EthersLoadedOnceStep ==
  /\ (\A k \in 1..Len(scripts') : scripts'[k] # "failed") => Len(scripts') <= 1
  /\ windowEthers => Len(scripts') = Len(scripts)

EthersLoadedOnce == [][EthersLoadedOnceStep]_vars

\* C29: the listener suppresses a rejection only when its error is in the
\* handled set
SuppressionStep ==
  (rejection' # rejection /\ rejection'.prevented)
    => rejection'.reason \in handledErrors

SuppressionOnlyOfHandled == [][SuppressionStep]_vars


(***************************************************************************)
(* Time remaining, the cache lifecycle and the Snapshot id formats         *)
(***************************************************************************)

\* a direct caller's resolve of a proposal link returns a record in this step
ResolveAnswers(d) ==
  /\ returned'[d] # returned[d]
  /\ returned'[d].pc = "done"
  /\ returned'[d].url \in Urls
  /\ returned'[d].rec # Null

\* whole days from instant t (ms) to the end (s), counted toward zero
DaysFromTo(t, endSeconds) ==
  LET diff == endSeconds * 1000 - t
      day == 86400000
  IN CHOOSE q \in -1..1 : IF diff >= 0 THEN q * day <= diff /\ diff < (q + 1) * day
                          ELSE (q - 1) * day < diff /\ diff <= q * day

\* whole hours from instant t (ms) to the end (s), for an end later today
HoursFromTo(t, endSeconds) ==
  LET diff == endSeconds * 1000 - t
      hour == 3600000
  IN CHOOSE q \in 0..23 : q * hour <= diff /\ diff < (q + 1) * hour

\* C24: the daysLeft and hoursLeft of every record a resolve call returns,
\* one answered from the cache included, are the values derived from the
\* proposal's end time and the clock at the time of that answer: daysLeft is
\* the number of whole days to the end, hoursLeft the number of whole hours
\* when the end is less than a day ahead and null otherwise.
TimeLeftStep ==
  \A d \in Directs :
    ResolveAnswers(d) =>
      LET r == returned'[d].rec
          endSeconds == EndTime(r.url)
          days == DaysFromTo(now', endSeconds)
      IN /\ r.daysLeft.defined
         /\ r.daysLeft.value = days
         /\ IF days = 0 /\ endSeconds * 1000 > now'
            THEN r.hoursLeft.defined
                 /\ r.hoursLeft.value = HoursFromTo(now', endSeconds)
            ELSE ~r.hoursLeft.defined

TimeLeftRecomputed == [][TimeLeftStep]_vars

\* a fetch of url ends in this step
FetchEnds(c) ==
  /\ c \in calls
  /\ c \notin calls'
  /\ ~\E c2 \in calls' : c2.caller = c.caller /\ c2.url = c.url /\ c2 \notin calls

\* the entry of url is new in this step: it was produced by a fetch of url
\* that ends in this step with a proposal, bears that URL and the time of
\* that fetch, and is what the caller of the fetch is given
EntryFromFetch(cache, cacheAfter, url) ==
  (cacheAfter[url] # cache[url] /\ cacheAfter[url] # Null) =>
    \E c \in calls :
      /\ FetchEnds(c)
      /\ c.url = url
      /\ cacheAfter[url].url = url
      /\ cacheAfter[url].cachedAt = now'
      /\ c.caller \in Directs =>
           /\ returned'[c.caller].rec = cacheAfter[url]
           /\ returned'[c.caller].lastKind \in {"proposal", "found"}

\* C25: every cache entry is created by a successful fetch for its own URL
\* key and stamped with the time of that fetch, and a resolution that ends
\* with null creates no entry.
CacheLifecycleStep ==
  /\ \A u \in Urls : EntryFromFetch(proposalCache, proposalCache', u)
  /\ \A u \in TallyUrls : EntryFromFetch(tallyCache, tallyCache', u)
  /\ \A d \in Directs :
       (returned'[d] # returned[d] /\ returned'[d].pc = "done"
        /\ returned'[d].rec = Null) =>
         /\ \A u \in Urls : proposalCache'[u] \in {proposalCache[u], Null}
         /\ \A u \in TallyUrls : tallyCache'[u] \in {tallyCache[u], Null}

CacheLifecycle == [][CacheLifecycleStep]_vars

\* a forced refresh of S2 failed some time after a fetch had cached S2: the
\* entry of that earlier fetch is still the one in the cache
CacheLifecycleWitness ==
  /\ returned[0].pc = "done"
  /\ returned[0].url = "S2"
  /\ returned[0].force
  /\ returned[0].rec = Null
  /\ proposalCache["S2"] # Null
  /\ proposalCache["S2"].cachedAt > 0
  /\ proposalCache["S2"].cachedAt < now

\* C27: a fetchSnapshotProposal call whose requests were answered without a
\* proposal (not found, GraphQL errors or an HTTP error) returns null only
\* after every format of its order has been requested, and a proposal ends
\* the call at the format that yielded it.
AllFormatsStep ==
  \A c \in calls :
    (c.impl = "snapshot" /\ FetchEnds(c) /\ c.caller \in Directs) =>
      LET r == returned'[c.caller]
      IN /\ (r.rec = Null /\ r.lastKind \in {"empty", "errors", "httpError"})
              => c.step = FormatCount(c.url)
         /\ r.rec # Null => r.lastKind = "proposal"

AllFormatsTried == [][AllFormatsStep]_vars

(***************************************************************************)
(* Failed forced refreshes, past end times, proposal id 0                  *)
(***************************************************************************)

\* C36: from its call to its return, a forced-refresh resolution that does
\* not end with a record leaves both caches as they are: the entry of its
\* URL keeps its record and its _cachedAt and no other entry is touched.
ForcedFailureStep ==
  \A d \in Directs :
    LET r == returned'[d]
    IN (/\ r.force
        /\ r.url \in Urls
        /\ \/ r.pc = "waiting"
           \/ r.pc = "done" /\ r.rec = Null /\ r # returned[d])
       => proposalCache' = proposalCache /\ tallyCache' = tallyCache

ForcedFailureKeepsCache == [][ForcedFailureStep]_vars

\* a forced refresh of A1 found neither source answering while the cache
\* still holds the record of an earlier fetch
ForcedFailureKeepsCacheWitness ==
  /\ returned[0].pc = "done"
  /\ returned[0].url = "A1"
  /\ returned[0].force
  /\ returned[0].rec = Null
  /\ returned[0].lastKind = "nothing"
  /\ returned[0].ageAtCall > 0
  /\ proposalCache["A1"] # Null
  /\ now - proposalCache["A1"].cachedAt >= returned[0].ageAtCall

\* C37: for every end time that lies in the past, by less than a day too,
\* the computed daysLeft is negative and the text shown is neither "Ends
\* today" nor an hours-left text; hoursLeft is a number only when the end
\* lies ahead by less than a day, and is then in 0..23.
PastEndIsNegative ==
  (timeCall.op \in {"calculateTimeRemaining", "transformSnapshotData"}
   /\ timeCall.end > 0) =>
    LET endMs == timeCall.end * 1000
    IN /\ endMs < timeCall.at =>
            /\ timeCall.daysLeft.defined
            /\ timeCall.daysLeft.value < 0
            /\ timeCall.text.template \notin {"Ends today", "Ends in hours!"}
       /\ timeCall.hoursLeft.defined =>
            /\ endMs > timeCall.at
            /\ endMs - timeCall.at < 24 * 60 * 60 * 1000
            /\ timeCall.hoursLeft.value \in 0..23

\* the decimal text of a positive integer
IsPositiveNumber(text) ==
  /\ \A i \in 1..Len(text) :
       text[i] \in {"0", "1", "2", "3", "4", "5", "6", "7", "8", "9"}
  /\ \E i \in 1..Len(text) : text[i] # "0"

\* C38: whenever extractAIPProposalInfo returns an identifier, its
\* proposalId is a positive integer; a URL whose proposalId is 0 gives null
\* on the query-parameter path and on every regex fallback.
AipIdIsPositive ==
  (urlCall.op = "extractAIPProposalInfo" /\ urlCall.info.found) =>
    IsPositiveNumber(urlCall.info.proposalId)

(***************************************************************************)
(* The two selectors and their argument                                    *)
(***************************************************************************)

\* a selector is called in this step
SelectorCalled == selectedBy = "none" /\ selectedBy' # "none"

\* C39: after a call of selectTopProposals the caller's candidate list holds
\* the same proposals in the same order as before the call.
ArgumentUnchangedStep == SelectorCalled => proposalsList' = proposalsList

SelectorKeepsArgument == [][ArgumentUnchangedStep]_vars

\* C34: for every candidate list, the selector of the initializer and the
\* exported selector of the utility module return the same proposals in
\* the same order.
SelectorsAgreeStep ==
  SelectorCalled =>
    selected' = IF selectedBy' = "initializer"
                THEN selectTopProposals(proposalsList)
                ELSE selectTopProposalsInline(proposalsList)

SelectorsAgree == [][SelectorsAgreeStep]_vars

(***************************************************************************)
(* Rendering of the selection, stale candidates, the network-error widget  *)
(***************************************************************************)

\* the selector of pass p is run in this step
SelectionRuns(p) == passes'[p].sel.ran /\ passes'[p].sel # passes[p].sel

\* C32: when renderSelectedProposals has run, every proposal the selector
\* returned has its widget in the page and its URL is no longer in
\* renderingUrls.
SelectedRenderedStep ==
  \A p \in PassIds :
    SelectionRuns(p) =>
      \A i \in 1..Len(passes'[p].sel.selected) :
        /\ passes'[p].sel.selected[i].url \in widgets'
        /\ passes'[p].sel.selected[i].url \notin renderingUrls'

SelectedAreRendered == [][SelectedRenderedStep]_vars

\* C33: every candidate handed to the selector of a pass is a link of the
\* thread of that pass and was resolved by a fetch of that pass.
CandidatesOfSamePass ==
  \A p \in PassIds :
    passes[p].sel.ran =>
      \A i \in 1..Len(passes[p].sel.cands) :
        /\ passes[p].sel.cands[i] \in Range(passes[p].links)
        /\ passes[p].res[passes[p].sel.cands[i]] \notin {Null, Pending, Unused}

\* the last Snapshot fetch of pass p settles in this step and every
\* Snapshot fetch of the pass has failed
SnapshotBatchFails(p) ==
  LET snaps == SnapshotLinks(passes'[p].links)
  IN /\ snaps # <<>>
     /\ passes'[p].links = passes[p].links
     /\ \E i \in 1..Len(snaps) : passes[p].res[snaps[i]] = Pending
     /\ \A i \in 1..Len(snaps) : passes'[p].res[snaps[i]] = Null

\* C35: when every Snapshot fetch of a pass has failed, the network-error
\* widget is in the page, no exception reached the .catch of the batch
\* handler, and the handler stored its (empty) result for the AIP batch.
NetworkErrorStep ==
  \A p \in PassIds :
    SnapshotBatchFails(p) =>
      /\ passes'[p].errorWidget
      /\ ~passes'[p].caught
      /\ AipLinks(passes'[p].links) # <<>> => winSnapshot' = <<>>

NetworkErrorShown == [][NetworkErrorStep]_vars


\* C31: once setupAutoRefresh has been started for a displayed Tally
\* widget, its refresh interval stays registered and running for as long as
\* the widget is displayed, also after a refresh has re-rendered the widget,
\* and no widget id has more than one running interval.
LiveIntervalsOf(widgetId) ==
  {t \in intervals : intervalOwner[t] = widgetId}

AutoRefreshKeepsRunning ==
  \A w \in TallyWidgetIds :
    /\ Cardinality(LiveIntervalsOf(w)) <= 1
    /\ (w \in tallyDom /\ refreshing = NotRefreshing)
         => /\ refreshKeys[w] # NoInterval
            /\ refreshKeys[w] \in intervals
            /\ intervalOwner[refreshKeys[w]] = w


\* no widget id has more than one running interval
OneIntervalPerWidget ==
  \A w \in TallyWidgetIds : Cardinality(LiveIntervalsOf(w)) <= 1

\* a refresh that does not re-render leaves the interval of a displayed
\* widget running
FailedRefreshKeepsIntervalStep ==
  (refreshing # NotRefreshing /\ refreshing' = NotRefreshing
     /\ tallyDom' = tallyDom /\ refreshKeys[refreshing] \in intervals
     /\ (returned[0].rec = Null \/ returned[0].rec.title = "Tally Proposal"))
    => refreshKeys[refreshing] \in intervals'

FailedRefreshKeepsInterval == [][FailedRefreshKeepsIntervalStep]_vars

====
